---- MODULE Spec2Model ----
(***************************************************************************)
(* A model of next-action-plus (src/src/index.ts): the ActionPlus builder,  *)
(* the multi-schema resolver (validateInput, parseSchema, tryParseSchema),  *)
(* the middleware chain runner (runMiddlewareChain / runNext) and the error *)
(* pipeline of the produced action function.                                *)
(*                                                                          *)
(* Validators, middlewares and the handler are caller-supplied code.  They  *)
(* are drawn from finite catalogues of deterministic behaviours; the code   *)
(* of the library is translated step by step, one action per stretch of     *)
(* code between two suspension points (await).                              *)
(***************************************************************************)
EXTENDS Integers, Sequences, FiniteSets, TLC

(***************************************************************************)
(* Bounds of the model.                                                     *)
(***************************************************************************)
MaxSchemas == 3
ShortChain == 2
MaxMiddlewares == 3
MaxCalls == 2
MaxBuilders == 3

(***************************************************************************)
(* JavaScript values.  A value is a record [t, id, f]: its runtime type,    *)
(* its reference identity (two objects with the same fields but distinct    *)
(* ids are distinct references) and its own enumerable properties, a total  *)
(* function over Keys where Absent marks a key the object does not have.    *)
(***************************************************************************)
Keys == {"a", "b"}
Absent == "-"
FieldVals == {"1", "2", "5", "6", "9"}
NoFields == [k \in Keys |-> Absent]

Obj(id, f) == [t |-> "object", id |-> id, f |-> f]
FormDataOf(id, f) == [t |-> "formdata", id |-> id, f |-> f]
Undefined == [t |-> "undefined", id |-> "undefined", f |-> NoFields]
Null == [t |-> "null", id |-> "null", f |-> NoFields]
Prim(id) == [t |-> "prim", id |-> id, f |-> NoFields]
Arr(id) == [t |-> "array", id |-> id, f |-> NoFields]
DateOf(id) == [t |-> "date", id |-> id, f |-> NoFields]

Fields(a, b) == [k \in Keys |-> IF k = "a" THEN a ELSE b]

\* { ...x, ...y } on own enumerable properties: keys of y win.
SpreadFields(x, y) == [k \in Keys |-> IF y[k] # Absent THEN y[k] ELSE x[k]]

\* The own enumerable properties a spread reads from a value: none for
\* undefined, null, primitives and FormData (whose entries are internal).
OwnFields(v) == IF v.t = "object" THEN v.f ELSE NoFields

\* Any non-null object counted as plain, arrays and dates included.
isObjectLike(value) == value.t \in {"object", "formdata", "array", "date"}

\* input instanceof FormData
IsFormData(v) == v.t = "formdata"

\* typeof value === 'object' && value !== null && !Array.isArray(value) &&
\* !(value instanceof Date)
isPlainObject(value) == value.t \in {"object", "formdata"}

(***************************************************************************)
(* Thrown values.  Each is named by its identity; ErrorShape gives the      *)
(* properties the error pipeline inspects.                                  *)
(***************************************************************************)
NoError == "none"

\* A normalized issue (TActionPlusIssue): path of strings, message.
Issue(path, message) == [path |-> path, message |-> message]

\* A path segment as a validator library reports it: a string or number
\* (text), an object with a key ({ key }), or anything else (text is its
\* String()).
Str(text) == [kind |-> "string", text |-> text, key |-> Absent]
Keyed(key) == [kind |-> "keyed", text |-> "[object Object]", key |-> key]

\* The path of a raw issue: an array of segments, or not an array.
Path(segs) == [array |-> TRUE, segs |-> segs]
NoPath == [array |-> FALSE, segs |-> <<>>]

\* An issue as a validator library reports it; message is Absent when the
\* issue has none.
RawIssue(path, message) == [path |-> path, message |-> message]

\* The thrown values whose shape the error pipeline is tried on, each thrown
\* by the validator of the same name.
ErrorIds ==
    {"emptyPath", "noPath", "deepPath", "emptyMessage", "noMessage", "namedValidation",
     "emptyErrors", "nonArrayIssues", "nonStringName"}

ErrorShape(e) ==
    CASE e = "zodError" ->
            [object |-> TRUE, name |-> "ZodError", errors |-> "absent", issues |-> "array",
             list |-> <<RawIssue(Path(<<Str("b")>>), "Required")>>, text |-> "ZodError"]
      [] e = "standardIssues" ->
            [object |-> TRUE, name |-> "Error", errors |-> "absent", issues |-> "array",
             list |-> <<RawIssue(Path(<<Keyed("b")>>), "Required")>>,
             text |-> "Error: Validation error"]
      [] e = "standardUndefined" ->
            [object |-> TRUE, name |-> "Error", errors |-> "absent", issues |-> "undefined",
             list |-> <<>>, text |-> "Error: Validation error"]
      [] e = "emptyPath" ->
            [object |-> TRUE, name |-> "Error", errors |-> "absent", issues |-> "array",
             list |-> <<RawIssue(Path(<<>>), "Required")>>, text |-> "Error: bad"]
      [] e = "noPath" ->
            [object |-> TRUE, name |-> "Error", errors |-> "array", issues |-> "absent",
             list |-> <<RawIssue(NoPath, "Required")>>, text |-> "Error: bad"]
      [] e = "deepPath" ->
            [object |-> TRUE, name |-> "ZodError", errors |-> "absent", issues |-> "array",
             list |-> <<RawIssue(Path(<<Str("a"), Keyed("b")>>), "too short"),
                        RawIssue(Path(<<Str("b")>>), "Required")>>,
             text |-> "ZodError"]
      [] e = "emptyMessage" ->
            [object |-> TRUE, name |-> "Error", errors |-> "absent", issues |-> "array",
             list |-> <<RawIssue(Path(<<Str("b")>>), "")>>, text |-> "Error: bad"]
      [] e = "noMessage" ->
            [object |-> TRUE, name |-> "Error", errors |-> "absent", issues |-> "array",
             list |-> <<RawIssue(Path(<<Str("b")>>), Absent)>>, text |-> "Error: bad"]
      [] e = "namedValidation" ->
            [object |-> TRUE, name |-> "MyValidationError", errors |-> "absent",
             issues |-> "absent", list |-> <<>>, text |-> "MyValidationError: bad"]
      [] e = "emptyErrors" ->
            [object |-> TRUE, name |-> "Error", errors |-> "emptyArray", issues |-> "array",
             list |-> <<RawIssue(Path(<<Str("b")>>), "Required")>>, text |-> "Error: bad"]
      [] e = "nonArrayIssues" ->
            [object |-> TRUE, name |-> "Error", errors |-> "absent", issues |-> "nonArray",
             list |-> <<>>, text |-> "Error: bad"]
      [] e = "nonStringName" ->
            [object |-> TRUE, name |-> "nonString", errors |-> "absent", issues |-> "absent",
             list |-> <<>>, text |-> "[object Object]"]
      [] e = "numberNameIssues" ->
            [object |-> TRUE, name |-> "nonString", errors |-> "absent", issues |-> "array",
             list |-> <<RawIssue(Path(<<Str("b")>>), "Required")>>,
             text |-> "[object Object]"]
      [] e = "unsupported" ->
            [object |-> TRUE, name |-> "Error", errors |-> "absent", issues |-> "absent",
             list |-> <<>>, text |-> "Error: Unsupported schema type"]
      [] e = "plainError" ->
            [object |-> TRUE, name |-> "Error", errors |-> "absent", issues |-> "absent",
             list |-> <<>>, text |-> "Error: boom"]
      [] e = "thrownString" ->
            [object |-> FALSE, name |-> "absent", errors |-> "absent", issues |-> "absent",
             list |-> <<>>, text |-> "boom"]
      [] OTHER ->
            [object |-> TRUE, name |-> "Error", errors |-> "absent", issues |-> "absent",
             list |-> <<>>, text |-> "Error"]

(***************************************************************************)
(* Validator behaviours: what a validator's operation computes from its     *)
(* input, [ok, val, err].  They stand for the schema libraries, which the   *)
(* program treats as opaque.                                                *)
(***************************************************************************)
Ok(v) == [ok |-> TRUE, val |-> v, err |-> NoError]
Fail(e) == [ok |-> FALSE, val |-> Undefined, err |-> e]

Behave(fn, x) ==
    CASE fn = "constA" -> Ok(Obj("outA", Fields("1", Absent)))
      [] fn = "constB" -> Ok(Obj("outB", Fields(Absent, "2")))
      [] fn = "constA9" -> Ok(Obj("outA9", Fields("9", Absent)))
      [] fn = "sliceB" ->
            IF x.t = "object" /\ x.f["b"] # Absent
            THEN Ok(Obj("outSlice", Fields(Absent, x.f["b"])))
            ELSE Fail("zodError")
      [] fn = "formData" ->
            IF x.t \in {"object", "formdata"}
            THEN Ok(Obj("decoded", x.f))
            ELSE Fail("zodError")
      [] fn = "reject" -> Fail("zodError")
      [] fn = "crash" -> Fail("plainError")
      [] fn = "prim" -> Ok(Prim("outPrim"))
      [] fn = "array" -> Ok(Arr("outArray"))
      [] fn = "null" -> Ok(Null)
      [] fn = "date" -> Ok(DateOf("outDate"))
      [] fn \in ErrorIds -> Fail(fn)
      [] OTHER -> Fail("plainError")

(***************************************************************************)
(* Validators: which operations the object exposes ("none" = not a          *)
(* function) and the behaviour behind each.  shape is the form of a         *)
(* successful Standard result: "value" for {value}, "undefinedIssues" for   *)
(* {value, issues: undefined}, "empty" for a result with neither key.       *)
(***************************************************************************)
None == "none"

Validator(object, parseAsync, parse, safeParseAsync, safeParse, standard, shape) ==
    [object |-> object, parseAsync |-> parseAsync, parse |-> parse,
     safeParseAsync |-> safeParseAsync, safeParse |-> safeParse,
     standard |-> standard, shape |-> shape]

Sync(fn) == Validator(TRUE, None, fn, None, None, None, "value")
Async(fn) == Validator(TRUE, fn, None, None, None, None, "value")
Zod(fn) == Validator(TRUE, fn, fn, fn, fn, None, "value")
Standard(fn, shape) == Validator(TRUE, None, None, None, None, fn, shape)

ValidatorOf(name) ==
    CASE name = "syncA" -> Sync("constA")
      [] name = "syncB" -> Sync("constB")
      [] name = "asyncA9" -> Async("constA9")
      [] name = "syncSliceB" -> Sync("sliceB")
      [] name = "zodSliceB" -> Zod("sliceB")
      [] name = "zodFormData" -> Zod("formData")
      [] name = "syncReject" -> Sync("reject")
      [] name = "syncCrash" -> Sync("crash")
      [] name = "syncPrim" -> Sync("prim")
      [] name = "syncArray" -> Sync("array")
      [] name = "syncNull" -> Sync("null")
      [] name = "syncDate" -> Sync("date")
      [] name = "standardFormData" -> Standard("formData", "value")
      [] name = "standardUndefinedIssues" -> Standard("constA", "undefinedIssues")
      [] name = "standardEmpty" -> Standard("constA", "empty")
      [] name = "parseAndStandard" ->
            Validator(TRUE, None, "sliceB", None, None, "formData", "value")
      [] name = "unsupported" -> Validator(TRUE, None, None, None, None, None, "value")
      [] name \in ErrorIds -> Sync(name)
      [] OTHER -> Validator(FALSE, None, None, None, None, None, "value")

ValidatorNames ==
    {"syncA", "syncB", "asyncA9", "syncSliceB", "zodSliceB", "zodFormData", "syncReject", "syncCrash",
     "syncPrim", "syncArray", "standardFormData", "standardUndefinedIssues",
     "standardEmpty", "parseAndStandard", "unsupported"}

\* The result object of ~standard.validate.
StandardResult(v, x) ==
    LET r == Behave(v.standard, x)
    IN  IF r.ok
        THEN [issuesIn |-> v.shape = "undefinedIssues", valueIn |-> v.shape # "empty",
              value |-> r.val,
              err |-> IF v.shape = "undefinedIssues" THEN "standardUndefined" ELSE NoError]
        ELSE [issuesIn |-> TRUE, valueIn |-> FALSE, value |-> Undefined,
              err |-> "standardIssues"]

(***************************************************************************)
(* parseSchema (the Schema Adapter's invoke).  The result is [ok, val, err, *)
(* ops]: the value returned or the value thrown, and the validator          *)
(* operations called, in order.                                             *)
(***************************************************************************)
Outcome(r, ops) == [ok |-> r.ok, val |-> r.val, err |-> r.err, ops |-> ops]

\* One call of a validator operation, and whether the operation itself threw
\* or rejected (validate and the safe operations report failure in their
\* result instead).
Op(name, threw) == [name |-> name, threw |-> threw]

\* The end of parseSchema raising what the Standard path raises.
UnsupportedAsIssues == "standardIssues"

\* throw new Error('Unsupported schema type')
UnsupportedSchema == "unsupported"

\* The Standard path tried before the parse operations.
CapabilityStandardFirst(schema) ==
    IF ~schema.object THEN "none"
    ELSE IF schema.standard # None THEN "standard"
    ELSE IF schema.parseAsync # None THEN "parseAsync"
    ELSE IF schema.parse # None THEN "parse"
    ELSE "none"

\* The path parseSchema takes: the tests of lines 219-234, in their order.
Capability(schema) ==
    IF ~schema.object THEN "none"
    ELSE IF schema.parseAsync # None THEN "parseAsync"
    ELSE IF schema.parse # None THEN "parse"
    ELSE IF schema.standard # None THEN "standard"
    ELSE "none"

parseSchema(schema, input) ==
    LET path == Capability(schema)
    IN  IF path = "parseAsync"
        THEN LET r == Behave(schema.parseAsync, input)
             IN  Outcome(r, <<Op("parseAsync", ~r.ok)>>)
        ELSE IF path = "parse"
        THEN LET r == Behave(schema.parse, input)
             IN  Outcome(r, <<Op("parse", ~r.ok)>>)
        ELSE IF path = "standard"
        THEN LET s == StandardResult(schema, input)
             IN  IF s.issuesIn THEN Outcome(Fail(s.err), <<Op("validate", FALSE)>>)
                 ELSE IF s.valueIn THEN Outcome(Ok(s.value), <<Op("validate", FALSE)>>)
                 ELSE Outcome(Fail(UnsupportedSchema), <<Op("validate", FALSE)>>)
        ELSE Outcome(Fail(UnsupportedSchema), <<>>)

(***************************************************************************)
(* tryParseSchema (the probe): [ok, val, ops].  Nothing it calls can make   *)
(* it throw: the whole body runs inside try / catch.                        *)
(***************************************************************************)
Probed(ok, val, ops) == [ok |-> ok, val |-> IF ok THEN val ELSE Undefined, ops |-> ops]

tryParseSchema(schema, input) ==
    IF schema.object /\ schema.safeParseAsync # None
    THEN LET r == Behave(schema.safeParseAsync, input)
         IN  Probed(r.ok, r.val, <<Op("safeParseAsync", FALSE)>>)
    ELSE IF schema.object /\ schema.safeParse # None
    THEN LET r == Behave(schema.safeParse, input)
         IN  Probed(r.ok, r.val, <<Op("safeParse", FALSE)>>)
    ELSE LET s == IF schema.object /\ schema.standard # None
                  THEN StandardResult(schema, input)
                  ELSE [issuesIn |-> FALSE, valueIn |-> FALSE, value |-> Undefined,
                        err |-> NoError]
             first == IF schema.object /\ schema.standard # None
                      THEN <<Op("validate", FALSE)>> ELSE <<>>
         IN  IF s.issuesIn THEN Probed(FALSE, Undefined, first)
             ELSE IF s.valueIn THEN Probed(TRUE, s.value, first)
             ELSE LET p == parseSchema(schema, input)
                  IN  Probed(p.ok, p.val, first \o p.ops)

(***************************************************************************)
(* Middlewares.  A middleware is a script: the patches it passes to its     *)
(* successive next calls (Undefined for a call without options), whether it *)
(* awaits those calls, and how it ends: returning what its last next call   *)
(* resolved with ("next"), returning an object of its own ("own"), or       *)
(* throwing ("throw").                                                      *)
(***************************************************************************)
Script(patches, awaits, ret) ==
    [patches |-> patches, awaits |-> awaits, ret |-> ret]

PatchA == Obj("patchA", Fields("1", Absent))
PatchB == Obj("patchB", Fields(Absent, "2"))
PatchA9 == Obj("patchA9", Fields("9", Absent))
OwnCtx == Obj("ownCtx", Fields(Absent, "9"))

MiddlewareOf(name) ==
    CASE name = "patchA" -> Script(<<PatchA>>, TRUE, "next")
      [] name = "patchB" -> Script(<<PatchB>>, TRUE, "next")
      [] name = "patchA9" -> Script(<<PatchA9>>, TRUE, "next")
      [] name = "passThrough" -> Script(<<Undefined>>, TRUE, "next")
      [] name = "halt" -> Script(<<>>, TRUE, "own")
      [] name = "throwBefore" -> Script(<<>>, TRUE, "throw")
      [] name = "throwAfter" -> Script(<<PatchA>>, TRUE, "throw")
      [] name = "replace" -> Script(<<PatchA>>, TRUE, "own")
      [] name = "twice" -> Script(<<PatchA, PatchB>>, TRUE, "next")
      [] name = "detach" -> Script(<<PatchA>>, FALSE, "own")
      [] name = "mutate" -> Script(<<PatchB>>, TRUE, "next")
      [] name = "throwNamed" -> Script(<<>>, TRUE, "throw")
      [] OTHER -> Script(<<>>, TRUE, "own")

MiddlewareNames ==
    {"patchA", "patchB", "patchA9", "passThrough", "halt", "throwBefore", "throwAfter",
     "replace", "twice", "detach", "mutate"}

\* A middleware that assigns to a property of the ctx it was given
\* (ctx.a = ...) before it calls next.
Mutates(name) == name = "mutate"

\* The value a middleware throws.
MiddlewareError == "plainError"

\* The value middleware `name` throws when its script ends with a throw: an
\* error named like a validation error for throwNamed, a plain Error for the
\* others.
Thrown(name) == IF name = "throwNamed" THEN "namedValidation" ELSE MiddlewareError

\* The TypeError of an assignment to a property of a frozen object.
WriteError == "typeError"

(***************************************************************************)
(* Handlers: the function given to action().                                *)
(***************************************************************************)
HandlerOut == Obj("handlerOut", NoFields)

HandlerOf(name) ==
    CASE name = "ok" -> Ok(HandlerOut)
      [] name = "throwError" -> Fail("plainError")
      [] name = "throwZodError" -> Fail("zodError")
      [] name = "throwString" -> Fail("thrownString")
      [] name = "throwErrors" -> Fail("noPath")
      [] name = "throwNumberName" -> Fail("numberNameIssues")
      [] OTHER -> Ok(Undefined)

HandlerNames == {"ok", "throwError", "throwZodError", "throwString"}

(***************************************************************************)
(* Options (TActionPlusOptions).  A callback option is "absent", or names   *)
(* what the callback does when called.                                      *)
(***************************************************************************)
Options(logger, onError, formatValidationError, formatError, include) ==
    [logger |-> logger, onError |-> onError,
     formatValidationError |-> formatValidationError, formatError |-> formatError,
     includeInputInErrorDetails |-> include]

DefaultOptions == Options("console", "absent", "absent", "absent", "absent")

(***************************************************************************)
(* State.                                                                   *)
(*                                                                          *)
(* builders: the ActionPlus objects constructed so far, each with its       *)
(*   private fields schemas, middlewares, ctx and options.                  *)
(* fns: the action functions produced by action(); each closes over `this`  *)
(*   (an index into builders) and its handler.                              *)
(* calls: how many invocations the caller makes.                            *)
(* The other variables are indexed by invocation (1..MaxCalls) and hold the *)
(* locals of one activation of the action function and of the methods it    *)
(* calls.  error is the value caught by the action function and origin the  *)
(* awaited call whose rejection it is; events is the history of what the    *)
(* activation called, reports the history of the error pipeline's sinks.    *)
(***************************************************************************)
VARIABLES builders, fns, calls,
          pc, fn, input, phase, parsedInputForErrors, ctxForErrors, error, origin, result,
          schemasToRun, baseInput, i, mergedObject, lastNonObject, parsedInput,
          ctx, currentIndex, frames, finalCtx, events, reports

configVars == <<builders, fns, calls>>
actionVars == <<fn, input, phase, parsedInputForErrors, ctxForErrors, error, origin,
                result>>
validateVars == <<schemasToRun, baseInput, i, mergedObject, lastNonObject, parsedInput>>
chainVars == <<ctx, currentIndex, frames, finalCtx>>
vars == <<configVars, pc, actionVars, validateVars, chainVars, events, reports>>

CallIds == 1..MaxCalls

SeqsUpTo(S, n) == UNION {[1..k -> S] : k \in 0..n}

Builder(schemas_, middlewares_, ctx_, options_) ==
    [schemas |-> schemas_, middlewares |-> middlewares_, ctx |-> ctx_, options |-> options_]

\* The builder an invocation runs on: the `this` of its action function.
This(c) == builders[fns[fn[c]].this]
HandlerOfCall(c) == HandlerOf(fns[fn[c]].handler)

(***************************************************************************)
(* Raw inputs the caller passes.                                            *)
(***************************************************************************)
InputObject == Obj("input", Fields("5", "6"))
InputOnlyA == Obj("inputA", Fields("5", Absent))
InputFormData == FormDataOf("formData", Fields("5", "6"))
Inputs == {InputObject, InputOnlyA, InputFormData, Undefined}

(***************************************************************************)
(* Events of the history.                                                   *)
(*   op   the operation called: a validator operation ("parseAsync",        *)
(*        "parse", "safeParseAsync", "safeParse", "validate"), "middleware",*)
(*        "handler", or a sink of the error pipeline                        *)
(*   via  for a validator operation, who called it: "probe"                 *)
(*        (tryParseSchema) or "invoke" (parseSchema from validateInput)     *)
(*   n    the position of the validator or middleware in its chain          *)
(*   x, y the arguments (input; ctx); for parseSchema and tryParseSchema, y  *)
(*        is the value returned                                             *)
(*   ok   whether the call returned normally (FALSE: it threw or rejected)   *)
(***************************************************************************)
Event(op, via, n, x, y, ok) ==
    [op |-> op, via |-> via, n |-> n, x |-> x, y |-> y, ok |-> ok]

ValidatorOps == {"parseAsync", "parse", "safeParseAsync", "safeParse", "validate"}

OpEvents(ops, via, n, x) ==
    [k \in 1..Len(ops) |-> Event(ops[k].name, via, n, x, Undefined, ~ops[k].threw)]

(***************************************************************************)
(* Initial states: a builder configured by createActionPlus(options) and a  *)
(* sequence of schema() and use() calls, and one action function produced   *)
(* from it.  The configurations vary one part of the pipeline at a time.    *)
(***************************************************************************)
EmptyCtx == Obj("baseCtx", NoFields)
BaseCtxB == Obj("baseCtx", Fields(Absent, "5"))

\* Every validator in chains of up to ShortChain, the validators that matter
\* to merging in chains of up to MaxSchemas.
MergingValidators ==
    {"syncA", "syncB", "zodFormData", "syncReject", "syncPrim", "syncArray", "syncNull",
     "syncDate"}

ResolverSetups ==
    {<<Builder(s, <<>>, EmptyCtx, DefaultOptions), "ok">> :
        s \in SeqsUpTo(ValidatorNames, ShortChain)
              \cup SeqsUpTo(MergingValidators, MaxSchemas)}

\* Every middleware in chains of up to ShortChain, the middlewares that
\* matter to the order of the chain in chains of up to MaxMiddlewares.
OrderingMiddlewares == {"patchA", "patchB", "halt", "twice", "throwAfter", "detach"}

ChainSetups ==
    {<<Builder(s, m, x, DefaultOptions), h>> :
        s \in {<<>>, <<"syncA">>},
        m \in SeqsUpTo(MiddlewareNames, ShortChain),
        x \in {EmptyCtx, BaseCtxB},
        h \in {"ok", "throwError"}}
    \cup {<<Builder(<<>>, m, BaseCtxB, DefaultOptions), "ok">> :
            m \in SeqsUpTo(OrderingMiddlewares, MaxMiddlewares)}

OptionSets ==
    {Options(l, o, fv, fe, inc) :
        l \in {"console", "false", "custom", "throws"},
        o \in {"absent", "returns", "throws"},
        fv \in {"absent", "returns", "returnsUndefined", "throws"},
        fe \in {"absent", "returns", "returnsUndefined", "throws"},
        inc \in {"absent", "true", "false"}}

\* Failures in each phase, and a success, under every combination of options.
ErrorSetups ==
    {<<Builder(sc[1], sc[2], EmptyCtx, o), sc[3]>> :
        sc \in {<<(<<"syncReject">>), (<<>>), "ok">>,
                <<(<<"unsupported">>), (<<>>), "ok">>,
                <<(<<"syncA">>), (<<"throwBefore">>), "ok">>,
                <<(<<"syncA">>), (<<"patchA">>), "throwError">>,
                <<(<<"syncA">>), (<<"patchA">>), "throwZodError">>,
                <<(<<"syncA">>), (<<"patchA">>), "throwString">>,
                <<(<<"syncA">>), (<<"patchA">>), "throwErrors">>,
                <<(<<"syncA">>), (<<"patchA">>), "throwNumberName">>,
                <<(<<"syncA">>), (<<"throwNamed">>), "ok">>,
                <<(<<"syncA">>), (<<"patchA">>), "ok">>}
               \cup {<<(<<e>>), (<<>>), "ok">> : e \in ErrorIds},
        o \in OptionSets}

\* The three families of configurations, kept apart.
Setups == <<ResolverSetups, ChainSetups, ErrorSetups>>

\* The inputs tried on a configuration: all of them where the resolver is
\* what varies, the plain object elsewhere.
InputsFor(b) ==
    IF b.middlewares = <<>> /\ b.options = DefaultOptions THEN Inputs ELSE {InputObject}

NoFrames == <<>>

\* The values an action's promise rejects with: the thrown value itself
\* (id = its identity, the other fields unused) or an error object built by
\* the pipeline or by a caller's callback.
NoData == [present |-> FALSE, input |-> Undefined, parsedInput |-> Undefined,
           ctx |-> Undefined]
ErrorValue(id, code, phase_, message, issues, cause, data) ==
    [id |-> id, code |-> code, phase |-> phase_, message |-> message, issues |-> issues,
     cause |-> cause, data |-> data]
Original(e) == ErrorValue(e, "-", "-", "-", <<>>, NoError, NoData)
NoErrorValue == Original(NoError)

Pending == [state |-> "pending", value |-> Undefined, error |-> NoErrorValue]
Resolved(v) == [state |-> "resolved", value |-> v, error |-> NoErrorValue]
Rejected(e) == [state |-> "rejected", value |-> Undefined, error |-> e]

InitCalls ==
    /\ pc = [c \in CallIds |-> "idle"]
    /\ fn = [c \in CallIds |-> 1]
    /\ input = [c \in CallIds |-> Undefined]
    /\ phase = [c \in CallIds |-> "validation"]
    /\ parsedInputForErrors = [c \in CallIds |-> Undefined]
    /\ ctxForErrors = [c \in CallIds |-> Undefined]
    /\ error = [c \in CallIds |-> NoError]
    /\ origin = [c \in CallIds |-> "-"]
    /\ result = [c \in CallIds |-> Pending]
    /\ schemasToRun = [c \in CallIds |-> <<>>]
    /\ baseInput = [c \in CallIds |-> Undefined]
    /\ i = [c \in CallIds |-> 0]
    /\ mergedObject = [c \in CallIds |-> Undefined]
    /\ lastNonObject = [c \in CallIds |-> Undefined]
    /\ parsedInput = [c \in CallIds |-> Undefined]
    /\ ctx = [c \in CallIds |-> Undefined]
    /\ currentIndex = [c \in CallIds |-> 0]
    /\ frames = [c \in CallIds |-> NoFrames]
    /\ finalCtx = [c \in CallIds |-> Undefined]
    /\ events = [c \in CallIds |-> <<>>]
    /\ reports = [c \in CallIds |-> <<>>]

Init ==
    /\ \E k \in DOMAIN Setups : \E su \in Setups[k] :
          /\ builders = <<su[1]>>
          /\ fns = <<[this |-> 1, handler |-> su[2]]>>
    /\ calls = 1
    /\ InitCalls

(***************************************************************************)
(* The try block of the action function.                                    *)
(***************************************************************************)
\* Mutant: the phase is never updated after the activation starts.
SetPhaseStale(c, p) ==
    phase' = [phase EXCEPT ![c] = IF p = "validation" THEN p ELSE phase[c]]

\* phase = 'validation' | 'middleware' | 'handler' (lines 70, 75, 80)
SetPhase(c, p) == phase' = [phase EXCEPT ![c] = p]

\* Mutant: the rejection is recorded and the try block goes on with its
\* next stage.
RejectContinue(c, e, from) ==
    /\ error' = [error EXCEPT ![c] = e]
    /\ origin' = [origin EXCEPT ![c] = from]
    /\ pc' = [pc EXCEPT ![c] = IF from = "validateInput" THEN "validated"
                               ELSE IF from = "runMiddlewareChain" THEN "chained"
                               ELSE "done"]

\* An awaited call of the try block (validateInput, runMiddlewareChain or
\* the handler) rejects with e: control passes to the catch block.
Reject(c, e, from) ==
    /\ error' = [error EXCEPT ![c] = e]
    /\ origin' = [origin EXCEPT ![c] = from]
    /\ pc' = [pc EXCEPT ![c] = "catch"]

NoReject == UNCHANGED <<error, origin>>

(***************************************************************************)
(* validateInput, piece by piece.                                           *)
(***************************************************************************)
\* Mutant: an empty chain hands on a copy of an object input.
NoSchemasCopy(x) == IF x.t = "object" THEN Obj("copy", OwnFields(x)) ELSE x

\* if (!this.schemas.length) return input;
NoSchemas(x) == x

\* const schemasToRun = [...this.schemas]: a copy, each validator with its
\* position n in the chain.
CopySchemas(schemas_) == [k \in 1..Len(schemas_) |-> [name |-> schemas_[k], n |-> k]]

\* Removing the head of the list whatever the index of the match.
SpliceHead(list, k) == [j \in 1..(Len(list) - 1) |-> list[j + 1]]

\* schemasToRun.splice(i, 1)
Splice(list, k) == [j \in 1..(Len(list) - 1) |-> IF j < k THEN list[j] ELSE list[j + 1]]

\* Mutant: the single result goes through the merge like the others.
SingleResultMerged(parsed) ==
    IF isPlainObject(parsed) THEN Obj("merged", OwnFields(parsed)) ELSE parsed

\* Single schema: return await this.parseSchema(schemasToRun[0], baseInput)
SingleResult(parsed) == parsed

\* Mutant: each validator of the loop is fed what the previous ones produced.
LoopInputPiped(base, merged) == IF merged.t = "undefined" THEN base ELSE merged

\* The input of parseSchema(schema, baseInput) in the loop over schemasToRun.
LoopInput(base, merged) == base

\* mergedObject = { ...(mergedObject ?? {}), ...parsed }
MergeInto(merged, parsed) ==
    Obj("merged", SpreadFields(OwnFields(merged), OwnFields(parsed)))

\* Mutant: a failing validator is skipped and the loop goes on, returning
\* what the others produced.
SkipFailed(c, e) ==
    /\ NoReject
    /\ UNCHANGED <<mergedObject, lastNonObject>>
    /\ IF i[c] < Len(schemasToRun[c])
       THEN /\ i' = [i EXCEPT ![c] = i[c] + 1]
            /\ UNCHANGED <<pc, parsedInput>>
       ELSE /\ parsedInput' = [parsedInput EXCEPT ![c] =
                                  IF mergedObject[c].t = "undefined"
                                  THEN lastNonObject[c] ELSE mergedObject[c]]
            /\ pc' = [pc EXCEPT ![c] = "validated"]
            /\ UNCHANGED i

\* A parseSchema call of validateInput throws: nothing catches it there, so
\* validateInput rejects with it.
Propagate(c, e) ==
    /\ Reject(c, e, "validateInput")
    /\ UNCHANGED <<i, mergedObject, lastNonObject, parsedInput>>

\* return mergedObject ?? lastNonObject
FinalResult(merged, last) == IF merged.t \in {"undefined", "null"} THEN last ELSE merged

Log(c, evs) == events' = [events EXCEPT ![c] = events[c] \o evs]

\* Lines 188-197 and the loop's first iteration: where validateInput goes
\* once the FormData scan is over (or was skipped).
AfterScan(c, list, base) ==
    IF Len(list) = 0
    THEN /\ parsedInput' = [parsedInput EXCEPT ![c] = base]
         /\ pc' = [pc EXCEPT ![c] = "validated"]
         /\ UNCHANGED <<i, mergedObject, lastNonObject>>
    ELSE /\ pc' = [pc EXCEPT ![c] = "run"]
         /\ i' = [i EXCEPT ![c] = 1]
         /\ mergedObject' = [mergedObject EXCEPT ![c] = Undefined]
         /\ lastNonObject' = [lastNonObject EXCEPT ![c] = Undefined]
         /\ UNCHANGED parsedInput

(***************************************************************************)
(* Invoke: the caller calls an action function with an input.  The async    *)
(* function starts: the locals are initialised and validateInput runs up to *)
(* its first suspension point.                                              *)
(***************************************************************************)
Invoke(c) ==
    /\ pc[c] = "idle"
    /\ c <= calls
    /\ \E f \in 1..Len(fns) : \E x \in InputsFor(builders[fns[f].this]) :
          LET b == builders[fns[f].this]
              list == CopySchemas(b.schemas)
          IN  /\ fn' = [fn EXCEPT ![c] = f]
              /\ input' = [input EXCEPT ![c] = x]
              /\ SetPhase(c, "validation")
              /\ parsedInputForErrors' = [parsedInputForErrors EXCEPT ![c] = Undefined]
              /\ ctxForErrors' = [ctxForErrors EXCEPT ![c] = Undefined]
              /\ result' = [result EXCEPT ![c] = Pending]
              /\ IF Len(b.schemas) = 0
                 THEN /\ parsedInput' = [parsedInput EXCEPT ![c] = NoSchemas(x)]
                      /\ pc' = [pc EXCEPT ![c] = "validated"]
                      /\ UNCHANGED <<schemasToRun, baseInput, i, mergedObject, lastNonObject>>
                 ELSE /\ schemasToRun' = [schemasToRun EXCEPT ![c] = list]
                      /\ baseInput' = [baseInput EXCEPT ![c] = x]
                      /\ IF IsFormData(x)
                         THEN /\ pc' = [pc EXCEPT ![c] = "probe"]
                              /\ i' = [i EXCEPT ![c] = 1]
                              /\ UNCHANGED <<mergedObject, lastNonObject, parsedInput>>
                         ELSE AfterScan(c, list, x)
    /\ UNCHANGED <<configVars, error, origin, chainVars, events, reports>>

(***************************************************************************)
(* Probe: one iteration of the FormData scan (lines 176-185) and, when the  *)
(* scan ends with it, lines 188-197.                                        *)
(***************************************************************************)
Probe(c) ==
    /\ pc[c] = "probe"
    /\ LET candidate == schemasToRun[c][i[c]]
           parsed == tryParseSchema(ValidatorOf(candidate.name), input[c])
           rest == Splice(schemasToRun[c], i[c])
       IN  /\ Log(c, <<Event("tryParseSchema", "probe", candidate.n, input[c],
                              parsed.val, parsed.ok)>>
                      \o OpEvents(parsed.ops, "probe", candidate.n, input[c]))
           /\ IF parsed.ok
              THEN /\ schemasToRun' = [schemasToRun EXCEPT ![c] = rest]
                   /\ baseInput' = [baseInput EXCEPT ![c] = parsed.val]
                   /\ AfterScan(c, rest, parsed.val)
              ELSE IF i[c] < Len(schemasToRun[c])
              THEN /\ i' = [i EXCEPT ![c] = i[c] + 1]
                   /\ UNCHANGED <<pc, schemasToRun, baseInput, mergedObject,
                                  lastNonObject, parsedInput>>
              ELSE /\ AfterScan(c, schemasToRun[c], baseInput[c])
                   /\ UNCHANGED <<schemasToRun, baseInput>>
    /\ UNCHANGED <<configVars, actionVars, chainVars, reports>>

(***************************************************************************)
(* Run: one parseSchema call of validateInput on the working input: the     *)
(* single remaining schema (line 196) or one iteration of the loop (lines   *)
(* 202-209), with the return of line 211 after the last one.  A failure     *)
(* rejects validateInput, which the action function catches.                *)
(***************************************************************************)
Run(c) ==
    /\ pc[c] = "run"
    /\ LET schema == schemasToRun[c][i[c]]
           single == Len(schemasToRun[c]) = 1
           arg == IF single THEN baseInput[c]
                  ELSE LoopInput(baseInput[c], mergedObject[c])
           parsed == parseSchema(ValidatorOf(schema.name), arg)
           merged == IF isPlainObject(parsed.val)
                     THEN MergeInto(mergedObject[c], parsed.val)
                     ELSE mergedObject[c]
           last == IF isPlainObject(parsed.val) THEN lastNonObject[c] ELSE parsed.val
       IN  /\ Log(c, <<Event("parseSchema", "invoke", schema.n, arg, parsed.val, parsed.ok)>>
                      \o OpEvents(parsed.ops, "invoke", schema.n, arg))
           /\ IF ~parsed.ok
              THEN Propagate(c, parsed.err)
              ELSE IF single
              THEN /\ parsedInput' = [parsedInput EXCEPT ![c] = SingleResult(parsed.val)]
                   /\ pc' = [pc EXCEPT ![c] = "validated"]
                   /\ NoReject
                   /\ UNCHANGED <<i, mergedObject, lastNonObject>>
              ELSE /\ mergedObject' = [mergedObject EXCEPT ![c] = merged]
                   /\ lastNonObject' = [lastNonObject EXCEPT ![c] = last]
                   /\ NoReject
                   /\ IF i[c] < Len(schemasToRun[c])
                      THEN /\ i' = [i EXCEPT ![c] = i[c] + 1]
                           /\ UNCHANGED <<pc, parsedInput>>
                      ELSE /\ parsedInput' = [parsedInput EXCEPT ![c] =
                                                 FinalResult(merged, last)]
                           /\ pc' = [pc EXCEPT ![c] = "validated"]
                           /\ UNCHANGED i
    /\ UNCHANGED <<configVars, fn, input, phase, parsedInputForErrors, ctxForErrors, result,
                   schemasToRun, baseInput, chainVars, reports>>

(***************************************************************************)
(* runMiddlewareChain.                                                      *)
(*                                                                          *)
(* ctx[c] and currentIndex[c] are the closure variables of one chain run.   *)
(* frames[c] holds the middleware activations started so far: the           *)
(* middleware (name, position n), the number k of next calls it has made,   *)
(* the frozen snapshot it was handed, the activation whose await its        *)
(* promise resolves (parent: 0 for runMiddlewareChain's own await, -1 when  *)
(* nobody awaits it), its status and the value its last awaited next call   *)
(* resolved with.                                                           *)
(***************************************************************************)
\* A caller that goes on whether or not it awaits.
AfterNextRunning(awaits) == "run"

\* What a middleware does after calling next: with `await next(...)` it is
\* suspended until the promise settles, without await it goes on running.
AfterNext(awaits) == IF awaits THEN "wait" ELSE "run"

\* A cursor kept on the instance instead of in the closure of one chain run.
CursorShared(c, n) == [d \in CallIds |-> n]

\* A cursor that is read but never advanced.
CursorStuck(c, n) == currentIndex

\* let currentIndex = 0 ... currentIndex++: the cursor of invocation c's own
\* chain run (a local of runMiddlewareChain) becomes n.
Cursor(c, n) == [currentIndex EXCEPT ![c] = n]

\* let ctx = { ...this.ctx }
CopyCtx(base) == Obj("ctxCopy", OwnFields(base))

\* Mutant: a middleware's own return value is dropped and what its last
\* next call resolved with is passed on.
ReturnedFromNext(fr) == fr.got

\* Mutant: the spread is written the other way round, so that keys already
\* in the accumulator win over the patch.
PatchedAccumulatorWins(acc, patch) ==
    IF patch.t \in {"undefined", "null"} THEN acc
    ELSE Obj("ctxMerged", SpreadFields(OwnFields(patch), OwnFields(acc)))

\* if (options?.ctx) ctx = { ...ctx, ...options.ctx }
Patched(acc, patch) ==
    IF patch.t \in {"undefined", "null"} THEN acc
    ELSE Obj("ctxMerged", SpreadFields(OwnFields(acc), OwnFields(patch)))

\* Mutant: the middleware is handed a copy that is not frozen.
Unfrozen(acc) == Obj("copy", OwnFields(acc))

\* Object.freeze({ ...ctx })
Freeze(acc) == Obj("frozen", OwnFields(acc))

\* ctx.a = "7" by the middleware holding snap: without effect on a frozen
\* object.
Write(snap) ==
    IF snap.id = "frozen" THEN snap ELSE Obj(snap.id, [snap.f EXCEPT !["a"] = "7"])

\* A middleware activation: wrote = it has made its assignment to ctx,
\* failed = the assignment threw (a TypeError, in strict-mode code).
Frame(name, n, snap, parent) ==
    [name |-> name, n |-> n, k |-> 0, snap |-> snap, parent |-> parent, st |-> "run",
     got |-> Undefined, wrote |-> FALSE, failed |-> FALSE]

\* Mutant: a rejection is taken to end at the activation that threw, as if
\* nobody awaited its promise's consumers.
TopSelf(fs, f) == f

\* The activation at the top of the chain of awaits that f's promise feeds.
RECURSIVE Top(_, _)
Top(fs, f) == IF fs[f].parent > 0 THEN Top(fs, fs[f].parent) ELSE f

RECURSIVE Awaiters(_, _)
Awaiters(fs, f) == {f} \cup (IF fs[f].parent > 0 THEN Awaiters(fs, fs[f].parent) ELSE {})

(***************************************************************************)
(* EnterMiddleware: validateInput has resolved; lines 72-76 and the first   *)
(* runNext() of runMiddlewareChain (lines 291-314).                         *)
(***************************************************************************)
EnterMiddleware(c) ==
    /\ pc[c] = "validated"
    /\ LET middlewares_ == This(c).middlewares
           acc == CopyCtx(This(c).ctx)
       IN  /\ parsedInputForErrors' = [parsedInputForErrors EXCEPT ![c] = parsedInput[c]]
           /\ SetPhase(c, "middleware")
           /\ ctx' = [ctx EXCEPT ![c] = acc]
           /\ IF 0 < Len(middlewares_)
              THEN /\ currentIndex' = Cursor(c, 1)
                   /\ frames' = [frames EXCEPT ![c] =
                                    <<Frame(middlewares_[1], 1, Freeze(acc), 0)>>]
                   /\ Log(c, <<Event("middleware", "next", 1, parsedInput[c],
                                      Freeze(acc), TRUE)>>)
                   /\ pc' = [pc EXCEPT ![c] = "chain"]
                   /\ UNCHANGED finalCtx
              ELSE /\ currentIndex' = Cursor(c, 0)
                   /\ frames' = [frames EXCEPT ![c] = NoFrames]
                   /\ finalCtx' = [finalCtx EXCEPT ![c] = acc]
                   /\ pc' = [pc EXCEPT ![c] = "chained"]
                   /\ UNCHANGED events
    /\ UNCHANGED <<configVars, fn, input, ctxForErrors, error, origin, result, validateVars,
                   reports>>

(***************************************************************************)
(* Mutate: middleware activation f assigns to a property of the ctx it was  *)
(* given (line 306: the object is frozen).  In strict-mode code the         *)
(* assignment throws, otherwise it is ignored.                              *)
(***************************************************************************)
Mutate(c, f) ==
    /\ f \in 1..Len(frames[c])
    /\ LET fr == frames[c][f]
       IN  /\ fr.st = "run"
           /\ Mutates(fr.name)
           /\ ~fr.wrote
           /\ \E strict \in BOOLEAN :
                 frames' = [frames EXCEPT ![c] =
                    [frames[c] EXCEPT ![f].snap = Write(fr.snap),
                                      ![f].wrote = TRUE,
                                      ![f].failed = strict /\ fr.snap.id = "frozen"]]
    /\ UNCHANGED <<configVars, pc, actionVars, validateVars, ctx, currentIndex, finalCtx,
                   events, reports>>

(***************************************************************************)
(* CallNext: middleware activation f calls next(options) (lines 295-312):   *)
(* the patch is merged, and either the middleware at the cursor starts on a *)
(* frozen snapshot or, past the end of the chain, the accumulator is        *)
(* returned.                                                                *)
(***************************************************************************)
CallNext(c, f) ==
    /\ f \in 1..Len(frames[c])
    /\ LET fr == frames[c][f]
           script == MiddlewareOf(fr.name)
           middlewares_ == This(c).middlewares
       IN  /\ fr.st = "run"
           /\ Mutates(fr.name) => fr.wrote /\ ~fr.failed
           /\ fr.k < Len(script.patches)
           /\ LET acc == Patched(ctx[c], script.patches[fr.k + 1])
                  n == currentIndex[c] + 1
              IN  /\ ctx' = [ctx EXCEPT ![c] = acc]
                  /\ IF currentIndex[c] < Len(middlewares_)
                     THEN /\ currentIndex' = Cursor(c, n)
                          /\ frames' = [frames EXCEPT ![c] =
                                Append([frames[c] EXCEPT
                                          ![f].k = fr.k + 1,
                                          ![f].st = AfterNext(script.awaits)],
                                       Frame(middlewares_[n], n, Freeze(acc),
                                             IF script.awaits THEN f ELSE -1))]
                          /\ Log(c, <<Event("middleware", "next", n, parsedInput[c],
                                             Freeze(acc), TRUE)>>)
                     ELSE /\ frames' = [frames EXCEPT ![c] =
                                [frames[c] EXCEPT
                                   ![f].k = fr.k + 1,
                                   ![f].got = IF script.awaits THEN acc ELSE fr.got]]
                          /\ UNCHANGED <<currentIndex, events>>
    /\ UNCHANGED <<configVars, pc, actionVars, validateVars, finalCtx, reports>>

(***************************************************************************)
(* Finish: middleware activation f ends, by returning or by throwing.  Its  *)
(* promise settles the await of its caller: runMiddlewareChain's (parent    *)
(* 0), a middleware's (which resumes, or rethrows: no script catches), or   *)
(* nobody's.                                                                *)
(***************************************************************************)
Returned(fr) ==
    LET script == MiddlewareOf(fr.name)
    IN  IF script.ret = "next" THEN fr.got ELSE OwnCtx

Finish(c, f) ==
    /\ f \in 1..Len(frames[c])
    /\ LET fr == frames[c][f]
           script == MiddlewareOf(fr.name)
           top == Top(frames[c], f)
           up == Awaiters(frames[c], f)
       IN  /\ fr.st = "run"
           /\ Mutates(fr.name) => fr.wrote
           /\ fr.failed \/ fr.k = Len(script.patches)
           /\ IF script.ret = "throw" \/ fr.failed
              THEN /\ frames' = [frames EXCEPT ![c] =
                         [g \in 1..Len(frames[c]) |->
                            IF g \in up THEN [frames[c][g] EXCEPT !.st = "threw"]
                            ELSE frames[c][g]]]
                   /\ IF frames[c][top].parent = 0
                      THEN Reject(c, IF fr.failed THEN WriteError ELSE Thrown(fr.name),
                                  "runMiddlewareChain")
                      ELSE UNCHANGED <<error, origin, pc>>
                   /\ UNCHANGED finalCtx
              ELSE /\ IF fr.parent > 0
                      THEN frames' = [frames EXCEPT ![c] =
                              [frames[c] EXCEPT ![f].st = "returned",
                                                ![fr.parent].st = "run",
                                                ![fr.parent].got = Returned(fr)]]
                      ELSE frames' = [frames EXCEPT ![c] =
                              [frames[c] EXCEPT ![f].st = "returned"]]
                   /\ IF fr.parent = 0
                      THEN /\ finalCtx' = [finalCtx EXCEPT ![c] = Returned(fr)]
                           /\ pc' = [pc EXCEPT ![c] = "chained"]
                      ELSE UNCHANGED <<finalCtx, pc>>
                   /\ NoReject
    /\ UNCHANGED <<configVars, fn, input, phase, parsedInputForErrors, ctxForErrors, result,
                   validateVars, ctx, currentIndex, events, reports>>

(***************************************************************************)
(* EnterHandler: runMiddlewareChain has resolved; lines 77-81 up to the     *)
(* call of the handler.                                                     *)
(***************************************************************************)
\* The runner's accumulator handed on instead of what the chain resolved
\* with.
ChainResultAccumulator(c) == ctx[c]

\* const ctx = await this.runMiddlewareChain(parsedInput): the value the
\* chain run resolved with.
ChainResult(c) == finalCtx[c]

EnterHandler(c) ==
    /\ pc[c] = "chained"
    /\ ctxForErrors' = [ctxForErrors EXCEPT ![c] = ChainResult(c)]
    /\ SetPhase(c, "handler")
    /\ Log(c, <<Event("handler", "action", 0, parsedInput[c], ChainResult(c), TRUE)>>)
    /\ pc' = [pc EXCEPT ![c] = "handler"]
    /\ UNCHANGED <<configVars, fn, input, parsedInputForErrors, error, origin, result,
                   validateVars, chainVars, reports>>

\* Mutant: the action resolves with an envelope of its own around the
\* handler's value.
ReturnEnveloped(v) == Resolved(Obj("envelope", NoFields))

\* return await handler({ parsedInput, ctx }): the async function's promise
\* is fulfilled with the very value the handler's promise resolved with.
Return(v) == Resolved(v)

(***************************************************************************)
(* Settle: the handler's promise settles; line 81 returns its value, or the *)
(* rejection is caught.                                                     *)
(***************************************************************************)
Settle(c) ==
    /\ pc[c] = "handler"
    /\ LET out == HandlerOfCall(c)
       IN  IF out.ok
           THEN /\ result' = [result EXCEPT ![c] = Return(out.val)]
                /\ pc' = [pc EXCEPT ![c] = "done"]
                /\ NoReject
           ELSE /\ Reject(c, out.err, "handler")
                /\ UNCHANGED result
    /\ UNCHANGED <<configVars, fn, input, phase, parsedInputForErrors, ctxForErrors,
                   validateVars, chainVars, events, reports>>

(***************************************************************************)
(* The error pipeline: the catch block of the action function (lines        *)
(* 82-120) and the helpers it calls.  A helper that can raise a TypeError   *)
(* of its own on an unexpected shape says so in its result.                 *)
(***************************************************************************)
\* isValidationError: "true", "false", or "throws".
isValidationError(e) ==
    LET Classify(shape) ==
            IF ~shape.object THEN "false"
            ELSE IF shape.name = "nonString" THEN "throws"
            ELSE IF shape.name \in {"ZodError", "MyValidationError"} THEN "true"
            ELSE IF shape.errors # "absent" \/ shape.issues # "absent" THEN "true"
            ELSE "false"
    IN  Classify(ErrorShape(e))

\* normalizeIssuePath: [] unless the path is an array; strings and numbers
\* as they are, the key of a { key } segment, String() of anything else.
normalizeIssuePath(path) ==
    IF ~path.array THEN <<>>
    ELSE [k \in DOMAIN path.segs |->
            IF path.segs[k].kind = "keyed" THEN path.segs[k].key ELSE path.segs[k].text]

\* Mutant: the message is taken from the raw issue as it is, a missing one
\* included.
NormalMessageRaw(message) == message

\* typeof issue.message === 'string' ? issue.message : String(issue.message ?? '')
NormalMessage(message) == IF message = Absent THEN "" ELSE message

\* normalizeIssues: [throws, issues].  errors ?? issues ?? [], then .map(...)
normalizeIssues(e) ==
    LET Raw(shape) ==
            IF ~shape.object THEN "absent"
            ELSE IF shape.errors \notin {"absent", "undefined"} THEN shape.errors
            ELSE IF shape.issues \notin {"absent", "undefined"} THEN shape.issues
            ELSE "absent"
        Map(shape, raw) ==
            IF raw = "nonArray" THEN [throws |-> TRUE, issues |-> <<>>]
            ELSE IF raw = "array"
            THEN [throws |-> FALSE,
                  issues |-> [k \in DOMAIN shape.list |->
                                Issue(normalizeIssuePath(shape.list[k].path),
                                      NormalMessage(shape.list[k].message))]]
            ELSE [throws |-> FALSE, issues |-> <<>>]
        Normal(shape) == Map(shape, Raw(shape))
    IN  Normal(ErrorShape(e))

\* Mutant: only the first segment of the path is kept.
JoinFirst(path) == IF Len(path) = 0 THEN "" ELSE path[1]

\* first.path.join('.')
RECURSIVE Join(_)
Join(path) ==
    IF Len(path) = 0 THEN ""
    ELSE IF Len(path) = 1 THEN path[1]
    ELSE path[1] \o "." \o Join(Tail(path))

\* formatValidationErrorParts: [throws, message, issues]
formatValidationErrorParts(e) ==
    LET Compose(norm, text, first) ==
            LET fieldPath == IF Len(first.path) > 0 THEN Join(first.path) ELSE "unknown"
                message == IF first.message # "" THEN first.message ELSE text
            IN  [throws |-> FALSE,
                 message |-> "Input (" \o fieldPath \o ") is error: " \o message,
                 issues |-> norm.issues]
        Parts(norm, text) ==
            IF norm.throws THEN [throws |-> TRUE, message |-> "", issues |-> <<>>]
            ELSE IF Len(norm.issues) = 0
            THEN [throws |-> FALSE, message |-> "Validation error: " \o text,
                  issues |-> <<>>]
            ELSE Compose(norm, text, norm.issues[1])
    IN  Parts(normalizeIssues(e), ErrorShape(e).text)

\* One call of a sink of the pipeline, with the context it was given.
Report(sink, bc, message, issues) ==
    [sink |-> sink, phase |-> bc.phase, error |-> bc.error, input |-> bc.input,
     parsedInput |-> bc.parsedInput, ctx |-> bc.ctx, message |-> message,
     issues |-> issues]

TypeError == Original("TypeError")

\* Mutant: the logger is called whatever the option says.
LoggedAlways(opts, e) ==
    <<[sink |-> "logger", phase |-> "-", error |-> e, input |-> Undefined,
       parsedInput |-> Undefined, ctx |-> Undefined, message |-> "-", issues |-> <<>>]>>

\* logger = options.logger === undefined ? console : options.logger;
\* if (logger !== false) logger.error('Action error:', error)
Logged(opts, e) ==
    IF opts.logger # "false"
    THEN <<[sink |-> "logger", phase |-> "-", error |-> e, input |-> Undefined,
            parsedInput |-> Undefined, ctx |-> Undefined, message |-> "-",
            issues |-> <<>>]>>
    ELSE <<>>

\* Mutant: the details are filled in whatever the option says.
DisclosedAlways(includeInput, v) == v

\* includeInput ? v : undefined
Disclosed(includeInput, v) == IF includeInput THEN v ELSE Undefined

\* Mutant: the built-in error carries the three values whatever the option
\* says.
DataAlways(includeInput, input_, parsedInput_, ctx_) ==
    [present |-> TRUE, input |-> input_, parsedInput |-> parsedInput_, ctx |-> ctx_]

\* data: includeInput ? { input, parsedInput, ctx } : undefined
Data(includeInput, input_, parsedInput_, ctx_) ==
    IF includeInput
    THEN [present |-> TRUE, input |-> input_, parsedInput |-> parsedInput_, ctx |-> ctx_]
    ELSE NoData

\* Mutant: the built-in error does not keep the original thrown value.
BuiltInWithoutCause(phase_, message, issues, e, data) ==
    ErrorValue("ActionPlusValidationError", "VALIDATION_ERROR", phase_, message, issues,
               NoError, data)

\* new ActionPlusValidationError(message, { issues, phase, cause: error, data })
BuiltIn(phase_, message, issues, e, data) ==
    ErrorValue("ActionPlusValidationError", "VALIDATION_ERROR", phase_, message, issues,
               e, data)

\* Mutant: onError is not called on a validation failure.
HookSkipped(opts, bc, message, issues) ==
    IF opts.onError = "absent" \/ message # "-" THEN <<>>
    ELSE <<Report("onError", bc, message, issues)>>

\* this.options.onError?.(context): the call, if the hook is configured.
Hook(opts, bc, message, issues) ==
    IF opts.onError = "absent" THEN <<>>
    ELSE <<Report("onError", bc, message, issues)>>

\* Mutant: what onError returns is thrown.
HookOutcomeReturned(opts, continue) ==
    IF opts.onError = "throws" THEN Original("onErrorThrown")
    ELSE IF opts.onError = "returns" THEN Original("onErrorResult")
    ELSE continue

\* What follows the call of onError: its throw leaves the catch block, its
\* return value is discarded.
HookOutcome(opts, continue) ==
    IF opts.onError = "throws" THEN Original("onErrorThrown") ELSE continue

\* Mutant: a non-validation failure is wrapped in an error of the library.
RethrowWrapped(opts, phase_, e) ==
    IF opts.formatError = "throws" THEN Original("formatErrorThrown")
    ELSE IF opts.formatError = "returns" THEN Original("formatErrorResult")
    ELSE ErrorValue("ActionPlusError", "ACTION_ERROR", phase_, "-", <<>>, e, NoData)

\* maybeFormatted = formatError?.(baseContext);
\* if (maybeFormatted) throw maybeFormatted; throw error
Rethrow(opts, phase_, e) ==
    IF opts.formatError = "throws" THEN Original("formatErrorThrown")
    ELSE IF opts.formatError = "returns" THEN Original("formatErrorResult")
    ELSE Original(e)

\* formatValidationError?.(validationContext) ?? new ActionPlusValidationError(...)
Formatted(opts, builtIn) ==
    IF opts.formatValidationError = "throws" THEN Original("formatValidationErrorThrown")
    ELSE IF opts.formatValidationError = "returns"
    THEN Original("formatValidationErrorResult")
    ELSE builtIn

\* The value the catch block throws, and the sinks it calls on the way.
\* [thrown, reports]
Normalize(opts, phase_, e, input_, parsedInput_, ctx_) ==
    LET includeInput == opts.includeInputInErrorDetails = "true"
        Handle(logged, baseContext, class, parts) ==
            LET builtIn == BuiltIn(phase_, parts.message, parts.issues, e,
                                   Data(includeInput, input_, parsedInput_, ctx_))
                hookV == Hook(opts, baseContext, parts.message, parts.issues)
                hookU == Hook(opts, baseContext, "-", <<>>)
                fmtV == IF opts.formatValidationError = "absent" \/ opts.onError = "throws"
                        THEN <<>>
                        ELSE <<Report("formatValidationError", baseContext, parts.message,
                                      parts.issues)>>
                fmtU == IF opts.formatError = "absent" \/ opts.onError = "throws" THEN <<>>
                        ELSE <<Report("formatError", baseContext, "-", <<>>)>>
            IN  IF opts.logger = "throws"
                THEN [thrown |-> Original("loggerThrown"), reports |-> logged]
                ELSE IF class = "throws" THEN [thrown |-> TypeError, reports |-> logged]
                ELSE IF class = "true"
                THEN IF parts.throws THEN [thrown |-> TypeError, reports |-> logged]
                     ELSE [thrown |-> HookOutcome(opts, Formatted(opts, builtIn)),
                           reports |-> logged \o hookV \o fmtV]
                ELSE [thrown |-> HookOutcome(opts, Rethrow(opts, phase_, e)),
                      reports |-> logged \o hookU \o fmtU]
    IN  Handle(Logged(opts, e),
               [phase |-> phase_, error |-> e,
                input |-> Disclosed(includeInput, input_),
                parsedInput |-> Disclosed(includeInput, parsedInput_),
                ctx |-> Disclosed(includeInput, ctx_)],
               isValidationError(e),
               formatValidationErrorParts(e))

\* Mutant: the catch block reads the values the stages are working on, not
\* the two locals recorded when a stage completed.
ProgressLive(c) == [parsedInput |-> parsedInput[c], ctx |-> ctx[c]]

\* let parsedInputForErrors = undefined, ctxForErrors = undefined, assigned
\* once validateInput, resp. runMiddlewareChain, resolved: how far the
\* invocation got, as the catch block sees it.
Progress(c) == [parsedInput |-> parsedInputForErrors[c], ctx |-> ctxForErrors[c]]

\* Mutant: the catch block ends without rethrowing, so the async function
\* returns undefined.
CatchWithoutRethrow(c) ==
    /\ pc[c] = "catch"
    /\ LET out == Normalize(This(c).options, phase[c], error[c], input[c],
                            Progress(c).parsedInput, Progress(c).ctx)
       IN  /\ result' = [result EXCEPT ![c] =
                           IF out.thrown = Original(error[c]) THEN Resolved(Undefined)
                           ELSE Rejected(out.thrown)]
           /\ reports' = [reports EXCEPT ![c] = reports[c] \o out.reports]
    /\ pc' = [pc EXCEPT ![c] = "done"]
    /\ UNCHANGED <<configVars, fn, input, phase, parsedInputForErrors, ctxForErrors, error,
                   origin, validateVars, chainVars, events>>

(***************************************************************************)
(* Catch: the catch block runs on the rejection of validateInput, of        *)
(* runMiddlewareChain or of the handler; what it throws rejects the         *)
(* action's promise.                                                        *)
(***************************************************************************)
Catch(c) ==
    /\ pc[c] = "catch"
    /\ LET out == Normalize(This(c).options, phase[c], error[c], input[c],
                            Progress(c).parsedInput, Progress(c).ctx)
       IN  /\ result' = [result EXCEPT ![c] = Rejected(out.thrown)]
           /\ reports' = [reports EXCEPT ![c] = reports[c] \o out.reports]
    /\ pc' = [pc EXCEPT ![c] = "done"]
    /\ UNCHANGED <<configVars, fn, input, phase, parsedInputForErrors, ctxForErrors, error,
                   origin, validateVars, chainVars, events>>

(***************************************************************************)
(* The specification: one invocation of the action function.                *)
(***************************************************************************)
Next ==
    \E c \in CallIds :
        \/ Invoke(c)
        \/ Probe(c)
        \/ Run(c)
        \/ EnterMiddleware(c)
        \/ \E f \in 1..(MaxMiddlewares + 1) : Mutate(c, f)
        \/ \E f \in 1..(MaxMiddlewares + 1) : CallNext(c, f)
        \/ \E f \in 1..(MaxMiddlewares + 1) : Finish(c, f)
        \/ EnterHandler(c)
        \/ Settle(c)
        \/ Catch(c)

Spec == Init /\ [][Next]_vars

(***************************************************************************)
(* Several invocations of one action function in flight at once: the same   *)
(* steps, with every call identifier live.                                  *)
(***************************************************************************)
ConcSetups ==
    {<<Builder(<<"zodFormData", "syncA">>, <<>>, EmptyCtx, DefaultOptions), "ok">>,
     <<Builder(<<"syncA">>, <<"patchA", "patchB">>, BaseCtxB, DefaultOptions), "throwError">>,
     <<Builder(<<>>, <<"patchA9", "throwAfter">>, EmptyCtx, DefaultOptions), "ok">>,
     <<Builder(<<>>, <<"patchA", "halt">>, EmptyCtx, DefaultOptions), "ok">>,
     <<Builder(<<>>, <<"mutate">>, EmptyCtx, DefaultOptions), "ok">>}

InitConc ==
    /\ \E su \in ConcSetups :
          /\ builders = <<su[1]>>
          /\ fns = <<[this |-> 1, handler |-> su[2]]>>
    /\ calls = MaxCalls
    /\ InitCalls

SpecConc == InitConc /\ [][Next]_vars

(***************************************************************************)
(* The builder: createActionPlus, schema(), use() and action() as steps.    *)
(* builders holds every ActionPlus instance constructed so far, fns every   *)
(* action function produced; an action function refers to its builder       *)
(* (`this`), whose fields it reads when it is invoked.                       *)
(***************************************************************************)
\* createActionPlus(): new ActionPlus() with the constructor's defaults.
createActionPlus == Builder(<<>>, <<>>, EmptyCtx, DefaultOptions)

\* schema(): a push onto the receiver's own array instead of a copy.
schemaPush(bs, b, v) ==
    LET pushed == [bs EXCEPT ![b].schemas = Append(@, v)]
    IN  Append(pushed, pushed[b])

\* The instances after builders[b].schema(v): the receiver is left alone and
\* the new instance gets [...this.schemas, schema] and the receiver's other
\* fields.
schema(bs, b, v) ==
    Append(bs, Builder(Append(bs[b].schemas, v), bs[b].middlewares, bs[b].ctx,
                       bs[b].options))

\* The instances after builders[b].use(m).
use(bs, b, m) ==
    Append(bs, Builder(bs[b].schemas, Append(bs[b].middlewares, m), bs[b].ctx,
                       bs[b].options))

BuilderValidators == {"syncA", "zodFormData"}
BuilderMiddlewares == {"patchA", "mutate"}
BuilderHandlers == {"ok", "throwError"}

InitBuilder ==
    /\ builders = <<createActionPlus>>
    /\ fns = <<>>
    /\ calls = 1
    /\ InitCalls

CallVars == <<pc, actionVars, validateVars, chainVars, events, reports>>

Schema(b) ==
    /\ b \in 1..Len(builders)
    /\ Len(builders) < MaxBuilders
    /\ \E v \in BuilderValidators : builders' = schema(builders, b, v)
    /\ UNCHANGED <<fns, calls, CallVars>>

Use(b) ==
    /\ b \in 1..Len(builders)
    /\ Len(builders) < MaxBuilders
    /\ \E m \in BuilderMiddlewares : builders' = use(builders, b, m)
    /\ UNCHANGED <<fns, calls, CallVars>>

\* action(handler): one action function for each invocation the model makes.
Action(b) ==
    /\ b \in 1..Len(builders)
    /\ Len(fns) < calls
    /\ \E h \in BuilderHandlers : fns' = Append(fns, [this |-> b, handler |-> h])
    /\ UNCHANGED <<builders, calls, CallVars>>

NextBuilder ==
    \/ \E b \in 1..MaxBuilders : Schema(b)
    \/ \E b \in 1..MaxBuilders : Use(b)
    \/ \E b \in 1..MaxBuilders : Action(b)
    \/ \E c \in CallIds :
          \/ Invoke(c)
          \/ Probe(c)
          \/ Run(c)
          \/ EnterMiddleware(c)
          \/ \E f \in 1..(MaxMiddlewares + 1) : Mutate(c, f)
          \/ \E f \in 1..(MaxMiddlewares + 1) : CallNext(c, f)
          \/ \E f \in 1..(MaxMiddlewares + 1) : Finish(c, f)
          \/ EnterHandler(c)
          \/ Settle(c)
          \/ Catch(c)

SpecBuilder == InitBuilder /\ [][NextBuilder]_vars

(***************************************************************************)
(* Properties.                                                              *)
(***************************************************************************)
Where(c, op) == {j \in DOMAIN events[c] : events[c][j].op = op}

\* Events of the validation stage: resolver calls and validator operations.
ValidationEvents(c) ==
    {j \in DOMAIN events[c] :
        events[c][j].op \in ValidatorOps \cup {"parseSchema", "tryParseSchema"}}

\* parseSchema calls made by validateInput itself (not inside a probe).
Invokes(c) ==
    {j \in DOMAIN events[c] :
        events[c][j].op = "parseSchema" /\ events[c][j].via = "invoke"}

StageOf(from) ==
    CASE from = "validateInput" -> "validation"
      [] from = "runMiddlewareChain" -> "middleware"
      [] from = "handler" -> "handler"
      [] OTHER -> "-"

\* C1: in every invocation the phases run in the order validation,
\* middleware, handler: a middleware is invoked only once validateInput is
\* over, after every validator call and with none of validateInput's
\* parseSchema calls failed; the handler is invoked only after every
\* validator call and after the first middleware started and returned
\* (the chain run resolved); and the handler is invoked at most once.
C1_PhaseOrder ==
    \A c \in CallIds :
        LET ev == events[c]
            mw == Where(c, "middleware")
            hd == Where(c, "handler")
            vd == ValidationEvents(c)
        IN  /\ mw # {} =>
                /\ pc[c] \notin {"idle", "probe", "run"}
                /\ origin[c] # "validateInput"
                /\ \A k \in Invokes(c) : ev[k].ok
                /\ \A k \in vd, j \in mw : k < j
            /\ hd # {} =>
                /\ pc[c] \in {"handler", "catch", "done"}
                /\ origin[c] \in {"-", "handler"}
                /\ \A k \in vd, j \in hd : k < j
                /\ Len(This(c).middlewares) > 0 =>
                      /\ frames[c] # <<>>
                      /\ frames[c][1].st = "returned"
                      /\ \E j \in mw : \A h \in hd : j < h
            /\ Cardinality(hd) <= 1

\* Witness of C1: an invocation that ran validators, middlewares and the
\* handler.
C1_Witness ==
    \E c \in CallIds :
        /\ Where(c, "handler") # {}
        /\ Cardinality(Where(c, "middleware")) >= 2
        /\ Invokes(c) # {}

\* A validator operation threw or rejected, anywhere in the invocation.
ValidatorThrew(c) ==
    \E j \in DOMAIN events[c] : events[c][j].op \in ValidatorOps /\ ~events[c][j].ok

\* A middleware activation threw (or rethrew what its next call threw).
MiddlewareThrew(c) == \E f \in DOMAIN frames[c] : frames[c][f].st = "threw"

\* The handler was invoked and threw.
HandlerThrew(c) ==
    /\ Where(c, "handler") # {}
    /\ pc[c] \in {"catch", "done"}
    /\ ~HandlerOfCall(c).ok

\* C2 as stated: whenever any validator, middleware or the handler throws or
\* rejects during an invocation, the action's promise never resolves with a
\* value and, once the invocation is over, it is rejected.
C2_AsStated ==
    \A c \in CallIds :
        (ValidatorThrew(c) \/ MiddlewareThrew(c) \/ HandlerThrew(c)) =>
            /\ result[c].state # "resolved"
            /\ pc[c] = "done" => result[c].state = "rejected"

\* validateInput rejected: one of its own parseSchema calls failed.
ValidateInputRejected(c) == \E j \in Invokes(c) : ~events[c][j].ok

\* runMiddlewareChain rejected: the first middleware, whose promise the chain
\* run awaits, threw or rethrew.
ChainRejected(c) == frames[c] # <<>> /\ frames[c][1].st = "threw"

\* C2, amended: whenever validateInput (a validator called outside the
\* FormData probe), runMiddlewareChain (a middleware whose promise is awaited
\* up to the chain run) or the handler rejects, the invocation is in its
\* catch block or over, the action's promise never resolves with a value
\* and, once the invocation is over, it is rejected.
C2_FailureRejects ==
    \A c \in CallIds :
        (ValidateInputRejected(c) \/ ChainRejected(c) \/ HandlerThrew(c)) =>
            /\ pc[c] \in {"catch", "done"}
            /\ result[c].state # "resolved"
            /\ pc[c] = "done" => result[c].state = "rejected"

\* Witness of C2: an invocation that is over, whose handler threw and whose
\* promise is rejected.
C2_Witness ==
    \E c \in CallIds :
        HandlerThrew(c) /\ pc[c] = "done" /\ result[c].state = "rejected"

\* C3: the phase the error pipeline records names the stage the failure
\* came from.  Whenever an awaited call of the try block has rejected, the
\* phase variable, the phase of every context handed to onError or to a
\* formatter and the phase of the built-in validation error are the stage of
\* that call; and that stage is the one in progress: for 'validation' no
\* middleware and no handler was invoked, for 'middleware' a middleware was
\* and the handler was not, for 'handler' the handler was.
C3_PhaseNamesOrigin ==
    \A c \in CallIds :
        origin[c] # "-" =>
            /\ phase[c] = StageOf(origin[c])
            /\ \A j \in DOMAIN reports[c] :
                  reports[c][j].sink # "logger" => reports[c][j].phase = StageOf(origin[c])
            /\ result[c].error.id = "ActionPlusValidationError" =>
                  result[c].error.phase = StageOf(origin[c])
            /\ origin[c] = "validateInput" =>
                  Where(c, "middleware") = {} /\ Where(c, "handler") = {}
            /\ origin[c] = "runMiddlewareChain" =>
                  Where(c, "middleware") # {} /\ Where(c, "handler") = {}
            /\ origin[c] = "handler" => Where(c, "handler") # {}

\* Witness of C3: the handler threw a value classified as a validation
\* failure; onError was told and the built-in error carries phase 'handler'.
C3_Witness ==
    \E c \in CallIds :
        /\ origin[c] = "handler"
        /\ result[c].error.id = "ActionPlusValidationError"
        /\ result[c].error.phase = "handler"
        /\ \E j \in DOMAIN reports[c] :
              reports[c][j].sink = "onError" /\ reports[c][j].phase = "handler"

\* C4 as stated: when any validator call fails, no validator later in the
\* chain is invoked afterwards, no parsed value is returned and neither a
\* middleware nor the handler is invoked.
C4_AsStated ==
    \A c \in CallIds : \A j \in DOMAIN events[c] :
        (events[c][j].op \in ValidatorOps /\ ~events[c][j].ok) =>
            /\ \A k \in ValidationEvents(c) : k > j => events[c][k].n <= events[c][j].n
            /\ parsedInput[c] = Undefined
            /\ Where(c, "middleware") = {} /\ Where(c, "handler") = {}

\* C4, amended: when a parseSchema call made by validateInput outside the
\* FormData probe fails, validateInput rejects at once: nothing of the
\* validation stage is called afterwards but the operation of that very call,
\* no parsed value is returned (none reaches the action function), and
\* neither a middleware nor the handler is invoked.
C4_InvokeFailurePropagates ==
    \A c \in CallIds : \A j \in Invokes(c) :
        ~events[c][j].ok =>
            /\ \A k \in ValidationEvents(c) :
                  k > j => /\ events[c][k].op \in ValidatorOps
                           /\ events[c][k].via = "invoke"
                           /\ events[c][k].n = events[c][j].n
            /\ \A k \in Invokes(c) : k <= j
            /\ origin[c] = "validateInput"
            /\ parsedInput[c] = Undefined
            /\ parsedInputForErrors[c] = Undefined
            /\ Where(c, "middleware") = {} /\ Where(c, "handler") = {}

\* Witness of C4: the second validator of a chain failed after the first
\* had produced an object, and the invocation is over.
C4_Witness ==
    \E c \in CallIds : \E j \in Invokes(c) :
        /\ ~events[c][j].ok
        /\ events[c][j].n = 2
        /\ mergedObject[c].t = "object"
        /\ pc[c] = "done"

\* What validator n of the chain returned in this invocation: the value of
\* its last successful call, by probe or by parseSchema.
OutputOf(c, n) ==
    LET js == {j \in DOMAIN events[c] :
                  /\ events[c][j].op \in {"parseSchema", "tryParseSchema"}
                  /\ events[c][j].n = n
                  /\ events[c][j].ok}
    IN  IF js = {} THEN Undefined
        ELSE events[c][CHOOSE j \in js : \A k \in js : k <= j].y

\* The shallow merge of two property maps, keys of the second winning.
Over(f, g) == [k \in Keys |-> IF g[k] = Absent THEN f[k] ELSE g[k]]

RECURSIVE MergedOutputs(_, _)
MergedOutputs(c, n) ==
    IF n = 0 THEN NoFields ELSE Over(MergedOutputs(c, n - 1), OutputOf(c, n).f)

\* C5 as stated: for a chain of two or more validators that all return plain
\* objects, the parsed input handed to the handler is the shallow merge of
\* the validators' outputs in chain order (every key of every output, the
\* latest validator winning a shared key).
C5_AsStated ==
    \A c \in CallIds :
        LET n == Len(This(c).schemas)
        IN  (n >= 2 /\ \A k \in 1..n : OutputOf(c, k).t = "object") =>
                \A h \in Where(c, "handler") :
                    /\ events[c][h].x.t = "object"
                    /\ events[c][h].x.f = MergedOutputs(c, n)

\* C6: when more than one validator remains to run, every parseSchema call
\* of validateInput, and every validator operation it calls, receives the
\* same working input: the value decoded by the successful FormData probe if
\* there was one, the raw input otherwise.
C6_SameWorkingInput ==
    \A c \in CallIds :
        Len(schemasToRun[c]) >= 2 =>
            LET decoded == {j \in Where(c, "tryParseSchema") : events[c][j].ok}
                working == IF decoded = {} THEN input[c]
                           ELSE events[c][CHOOSE j \in decoded : TRUE].y
            IN  \A j \in DOMAIN events[c] :
                    events[c][j].via = "invoke" => events[c][j].x = working

\* Witness of C6: after a successful FormData probe two validators ran, the
\* first of them returning an object.
C6_Witness ==
    \E c \in CallIds :
        /\ Len(schemasToRun[c]) >= 2
        /\ IsFormData(input[c])
        /\ \E j \in Where(c, "tryParseSchema") : events[c][j].ok
        /\ \E j, k \in Invokes(c) :
              j < k /\ events[c][j].ok /\ events[c][j].y.t = "object"

\* C7 as stated: for a chain of exactly one validator and every raw input,
\* FormData or not, validateInput resolves with exactly what
\* parseSchema(validator, input) returns and rejects exactly when it throws.
C7_AsStated ==
    \A c \in CallIds :
        LET s == This(c).schemas
        IN  (Len(s) = 1 /\ pc[c] \notin {"idle", "probe", "run"}) =>
                LET invoke == parseSchema(ValidatorOf(s[1]), input[c])
                IN  /\ (origin[c] = "validateInput") <=> ~invoke.ok
                    /\ invoke.ok => parsedInput[c] = invoke.val

\* C7, amended: for a chain of exactly one validator, validateInput resolves
\* with exactly what parseSchema(validator, input) returns (the same
\* reference, no merge wrapping), calling it once, and rejects with what it
\* throws exactly when it throws, for every raw input that is not FormData
\* and for a FormData input on which the probe fails; for a FormData input
\* on which the probe succeeds it resolves with the value the probe decoded
\* and parseSchema is not called.
C7_SingleValidator ==
    \A c \in CallIds :
        LET s == This(c).schemas
        IN  (Len(s) = 1 /\ pc[c] \notin {"idle", "probe", "run"}) =>
                LET invoke == parseSchema(ValidatorOf(s[1]), input[c])
                    probe == tryParseSchema(ValidatorOf(s[1]), input[c])
                IN  IF IsFormData(input[c]) /\ probe.ok
                    THEN /\ origin[c] # "validateInput"
                         /\ parsedInput[c] = probe.val
                         /\ Invokes(c) = {}
                    ELSE /\ (origin[c] = "validateInput") <=> ~invoke.ok
                         /\ invoke.ok => parsedInput[c] = invoke.val
                         /\ ~invoke.ok => error[c] = invoke.err /\ parsedInput[c] = Undefined
                         /\ Cardinality(Invokes(c)) = 1

\* Witness of C7: a single validator returned an object for an input that is
\* not FormData, and the handler received that very object.
C7_Witness ==
    \E c \in CallIds : \E h \in Where(c, "handler") :
        /\ Len(This(c).schemas) = 1
        /\ ~IsFormData(input[c])
        /\ events[c][h].x.t = "object"
        /\ events[c][h].x = parseSchema(ValidatorOf(This(c).schemas[1]), input[c]).val

\* C8: with no validator configured the handler's parsedInput is the raw
\* input itself, the same reference for an object or FormData input, and no
\* validator operation is invoked.
C8_EmptyChainPassThrough ==
    \A c \in CallIds :
        (Len(This(c).schemas) = 0 /\ pc[c] # "idle") =>
            /\ ValidationEvents(c) = {}
            /\ parsedInput[c] = input[c]
            /\ \A h \in Where(c, "handler") : events[c][h].x = input[c]
            /\ \A j \in Where(c, "middleware") : events[c][j].x = input[c]

\* Witness of C8: the handler of a chain without validators received a
\* FormData input.
C8_Witness ==
    \E c \in CallIds : \E h \in Where(c, "handler") :
        /\ Len(This(c).schemas) = 0
        /\ IsFormData(input[c])
        /\ events[c][h].x.id = "formData"

\* C9 as stated: for a chain of one FormData-capable validator followed by
\* one plain-object validator (one that does not accept FormData), and a
\* FormData input the first validator decodes, the handler's parsedInput is
\* the decoded base merged with the second validator's output computed
\* against that base.
C9_AsStated ==
    \A c \in CallIds :
        LET s == This(c).schemas
        IN  (/\ Len(s) = 2
             /\ IsFormData(input[c])
             /\ tryParseSchema(ValidatorOf(s[1]), input[c]).ok
             /\ ~tryParseSchema(ValidatorOf(s[2]), input[c]).ok) =>
                LET base == tryParseSchema(ValidatorOf(s[1]), input[c]).val
                    second == parseSchema(ValidatorOf(s[2]), base)
                IN  (base.t = "object" /\ second.ok /\ second.val.t = "object") =>
                        \A h \in Where(c, "handler") :
                            events[c][h].x.f = Over(base.f, second.val.f)

\* A middleware that calls next exactly once, with a context patch, and
\* returns what next resolved with.
PatchesOnce(name) ==
    LET m == MiddlewareOf(name)
    IN  Len(m.patches) = 1 /\ m.patches[1].t = "object" /\ m.awaits /\ m.ret = "next"

\* The base context merged with the patches of the first n middlewares.
RECURSIVE PatchedUpTo(_, _, _)
PatchedUpTo(base, mws, n) ==
    IF n = 0 THEN base.f
    ELSE Over(PatchedUpTo(base, mws, n - 1), MiddlewareOf(mws[n]).patches[1].f)

\* C10: in a chain whose middlewares all call next once with a patch and
\* return its result, middleware n observes as ctx the base context merged
\* with the patches of the middlewares before it, and the handler observes
\* the base context merged with all patches in chain order, later patches
\* winning; with no middleware the handler observes the base context's
\* contents.
C10_ContextAccumulates ==
    \A c \in CallIds :
        LET mws == This(c).middlewares
        IN  (\A n \in DOMAIN mws : PatchesOnce(mws[n])) =>
                /\ \A j \in Where(c, "middleware") :
                      /\ events[c][j].y.t = "object"
                      /\ events[c][j].y.f = PatchedUpTo(This(c).ctx, mws, events[c][j].n - 1)
                /\ \A h \in Where(c, "handler") :
                      /\ events[c][h].y.t = "object"
                      /\ events[c][h].y.f = PatchedUpTo(This(c).ctx, mws, Len(mws))
                      /\ Cardinality(Where(c, "middleware")) = Len(mws)

\* Witness of C10: two patching middlewares ran on a base context with key
\* b, the second patch overwrote b, and the handler observed both keys.
C10_Witness ==
    \E c \in CallIds : \E h \in Where(c, "handler") :
        /\ This(c).middlewares = <<"patchA", "patchB">>
        /\ This(c).ctx.f["b"] = "5"
        /\ events[c][h].y.f = Fields("1", "2")

\* C11: the ctx a middleware step holds is a frozen object whose contents
\* are those of the snapshot handed to it when the step began: neither an
\* assignment by the step nor any later next call, by this step or a
\* downstream one, changes it; what a step's awaited next resolved with is
\* the only place where it sees later patches.
C11_FrozenSnapshot ==
    \A c \in CallIds : \A f \in DOMAIN frames[c] :
        LET fr == frames[c][f]
            began == {j \in Where(c, "middleware") : events[c][j].n = fr.n}
        IN  /\ fr.snap.id = "frozen"
            /\ Cardinality(began) = 1
            /\ \A j \in began : events[c][j].y = fr.snap
            /\ fr.got.t # "undefined" => fr.k >= 1

\* Witness of C11: a middleware has assigned to its ctx and then called
\* next with a patch, and the accumulator now differs from the snapshot it
\* holds.
C11_Witness ==
    \E c \in CallIds : \E f \in DOMAIN frames[c] :
        /\ frames[c][f].wrote
        /\ frames[c][f].k = 1
        /\ ctx[c].f # frames[c][f].snap.f
        /\ frames[c][f].got.t = "object"

\* A middleware that returns an object of its own without calling next.
ShortCircuits(name) ==
    LET m == MiddlewareOf(name) IN Len(m.patches) = 0 /\ m.ret = "own"

\* The short-circuiting activations that have returned.
ShortCircuited(c) ==
    {f \in DOMAIN frames[c] :
        ShortCircuits(frames[c][f].name) /\ frames[c][f].st = "returned"}

\* C12 as stated: once a middleware has returned without calling next, no
\* middleware later in the chain is ever invoked, its value is the result of
\* the enclosing next call, and the handler is still invoked, with the
\* context returned by the chain as ctx.
C12_AsStated ==
    \A c \in CallIds : \A f \in ShortCircuited(c) :
        LET fr == frames[c][f]
        IN  /\ \A j \in Where(c, "middleware") : events[c][j].n <= fr.n
            /\ pc[c] = "done" =>
                  /\ Where(c, "handler") # {}
                  /\ \A h \in Where(c, "handler") : events[c][h].y = finalCtx[c]

\* The activations that await f's promise, directly or through their own
\* awaited next calls, all call next once and return what it resolved with,
\* and the outermost of them was started by the chain run itself.
Transparent(c, f) ==
    /\ frames[c][Top(frames[c], f)].parent = 0
    /\ \A g \in Awaiters(frames[c], f) \ {f} :
          LET m == MiddlewareOf(frames[c][g].name)
          IN  Len(m.patches) = 1 /\ m.ret = "next"

\* C12, amended: once a middleware has returned without calling next, a
\* middleware later in the chain is invoked only by a further next call of
\* a middleware before it (one that calls next more than once); its value is
\* what the enclosing awaited next call resolves with; and when every
\* enclosing middleware calls next once and returns its result, the chain
\* resolves with that value, the handler is invoked in every invocation that
\* completes, and it receives that value as ctx, not the accumulated context.
C12_ShortCircuit ==
    \A c \in CallIds : \A f \in ShortCircuited(c) :
        LET fr == frames[c][f]
        IN  /\ \A j \in Where(c, "middleware") :
                  events[c][j].n > fr.n =>
                      \E g \in DOMAIN frames[c] :
                          frames[c][g].n < fr.n /\ frames[c][g].k >= 2
            /\ (fr.parent > 0 /\ frames[c][fr.parent].k = 1) =>
                  frames[c][fr.parent].got = OwnCtx
            /\ Transparent(c, f) =>
                  /\ pc[c] \in {"chained", "handler", "done"} => finalCtx[c] = OwnCtx
                  /\ pc[c] = "done" =>
                        /\ Where(c, "handler") # {}
                        /\ \A h \in Where(c, "handler") : events[c][h].y = OwnCtx

\* Witness of C12: the second middleware returned without calling next, the
\* first had passed a patch, and the handler received the returned object,
\* which differs from the accumulated context.
C12_Witness ==
    \E c \in CallIds : \E f \in ShortCircuited(c) : \E h \in Where(c, "handler") :
        /\ frames[c][f].n = 2
        /\ Transparent(c, f)
        /\ events[c][h].y = OwnCtx
        /\ ctx[c].f # OwnCtx.f
        /\ Len(This(c).middlewares) = 3

\* C13 as stated: if any middleware activation throws or rejects, the chain
\* run rejects: the invocation is in its catch block or over with the
\* failure attributed to the middleware phase, the handler was never
\* invoked and no context was produced for it.
C13_AsStated ==
    \A c \in CallIds :
        MiddlewareThrew(c) =>
            /\ pc[c] \in {"catch", "done"}
            /\ origin[c] = "runMiddlewareChain"
            /\ Where(c, "handler") = {}
            /\ ctxForErrors[c] = Undefined

\* C13, amended: if a middleware throws or rejects and its promise is
\* awaited up to the chain run (it is the first middleware, or every
\* middleware between it and the first awaits its next call), the chain run
\* rejects with that failure: the handler is never invoked, no context is
\* produced (ctxForErrors stays undefined and no context reaches the error
\* pipeline), and the pipeline runs with phase 'middleware'.
C13_ChainRejects ==
    \A c \in CallIds :
        ChainRejected(c) =>
            /\ pc[c] \in {"catch", "done"}
            /\ origin[c] = "runMiddlewareChain"
            /\ error[c] \in {Thrown(This(c).middlewares[k]) : k \in DOMAIN This(c).middlewares}
                            \cup {WriteError}
            /\ phase[c] = "middleware"
            /\ Where(c, "handler") = {}
            /\ finalCtx[c] = Undefined
            /\ ctxForErrors[c] = Undefined
            /\ pc[c] = "done" =>
                  /\ result[c].state = "rejected"
                  /\ \A j \in DOMAIN reports[c] :
                        /\ reports[c][j].ctx = Undefined
                        /\ reports[c][j].sink # "logger" => reports[c][j].phase = "middleware"

\* Witness of C13: the second middleware threw after the first awaited its
\* next call, and the action rejected with what it threw.
C13_Witness ==
    \E c \in CallIds :
        /\ Len(frames[c]) >= 2
        /\ frames[c][2].parent = 1
        /\ MiddlewareOf(frames[c][2].name).ret = "throw"
        /\ frames[c][2].st = "threw"
        /\ ChainRejected(c)
        /\ pc[c] = "done"
        /\ result[c].error = Original(MiddlewareError)

\* An invocation that failed and is over, with its failure classified as a
\* validation failure (TRUE) or not (FALSE).
Failed(c) == pc[c] = "done" /\ origin[c] # "-"
FailedValidation(c) == Failed(c) /\ isValidationError(error[c]) = "true"
FailedOtherwise(c) == Failed(c) /\ isValidationError(error[c]) = "false"

\* The built-in validation error the claim describes, for invocation c.
IsBuiltInFor(c, e) ==
    /\ e.id = "ActionPlusValidationError"
    /\ e.code = "VALIDATION_ERROR"
    /\ e.issues = normalizeIssues(error[c]).issues
    /\ e.phase = phase[c]
    /\ e.phase = StageOf(origin[c])
    /\ e.cause = error[c]

\* C14 as stated: a failure classified as a validation failure rejects with
\* formatValidationError's return value when that option is configured and
\* returns a value, and otherwise with the built-in validation error (code
\* VALIDATION_ERROR, normalized issues, current phase, original value as
\* cause).
C14_AsStated ==
    \A c \in CallIds :
        FailedValidation(c) =>
            IF This(c).options.formatValidationError = "returns"
            THEN result[c].error = Original("formatValidationErrorResult")
            ELSE IsBuiltInFor(c, result[c].error)

\* C14, amended: provided the logger and onError return normally and the
\* error's errors/issues property, if present, is an array, a validation
\* failure rejects with formatValidationError's return value when the option
\* is configured and returns a value, with what formatValidationError throws
\* if it throws, and otherwise with the built-in validation error.  If the
\* logger or onError throws, the action rejects with what it threw; if the
\* errors/issues property is not an array, with a TypeError raised by the
\* pipeline itself.
C14_ValidationRejection ==
    \A c \in CallIds :
        FailedValidation(c) =>
            LET o == This(c).options
                thrown == result[c].error
            IN  /\ result[c].state = "rejected"
                /\ IF o.logger = "throws" THEN thrown = Original("loggerThrown")
                   ELSE IF normalizeIssues(error[c]).throws THEN thrown = Original("TypeError")
                   ELSE IF o.onError = "throws" THEN thrown = Original("onErrorThrown")
                   ELSE IF o.formatValidationError = "throws"
                   THEN thrown = Original("formatValidationErrorThrown")
                   ELSE IF o.formatValidationError = "returns"
                   THEN thrown = Original("formatValidationErrorResult")
                   ELSE IsBuiltInFor(c, thrown)

\* Witness of C14: a validator threw an error with two issues and the
\* action rejected with the built-in validation error, which carries both
\* and the thrown error as cause, although onError is configured and
\* formatValidationError returned undefined.
C14_Witness ==
    \E c \in CallIds :
        /\ FailedValidation(c)
        /\ error[c] = "deepPath"
        /\ This(c).options.onError = "returns"
        /\ This(c).options.formatValidationError = "returnsUndefined"
        /\ IsBuiltInFor(c, result[c].error)
        /\ Len(result[c].error.issues) = 2

\* The calls of a sink made by the error pipeline of invocation c.
Calls(c, sink) == {j \in DOMAIN reports[c] : reports[c][j].sink = sink}

\* Report j carries the base context: the phase and the thrown value, and
\* neither message nor issues.
IsBaseContext(c, j) ==
    /\ reports[c][j].phase = phase[c]
    /\ reports[c][j].error = error[c]
    /\ reports[c][j].message = "-"
    /\ reports[c][j].issues = <<>>

\* C15 as stated: a failure not classified as a validation failure calls
\* onError (when configured) with the base context and then rejects with
\* formatError's return value if formatError is configured and returns a
\* value, otherwise with the original thrown value itself;
\* formatValidationError is never invoked.
C15_AsStated ==
    \A c \in CallIds :
        FailedOtherwise(c) =>
            /\ This(c).options.onError # "absent" =>
                  /\ Calls(c, "onError") # {}
                  /\ \A j \in Calls(c, "onError") : IsBaseContext(c, j)
            /\ IF This(c).options.formatError = "returns"
               THEN result[c].error = Original("formatErrorResult")
               ELSE result[c].error = Original(error[c])
            /\ Calls(c, "formatValidationError") = {}

\* C15, amended: for a failure not classified as a validation failure, and
\* provided the logger returns normally, onError (when configured) is
\* invoked with the base context; if it throws the action rejects with what
\* it threw and formatError is not invoked; otherwise the action rejects
\* with what formatError throws if it throws, with formatError's return value
\* if it is configured and returns a value, and otherwise with the original
\* thrown value itself, unwrapped.  If the logger throws, the action rejects
\* with what it threw and neither onError nor formatError is invoked.
\* formatValidationError is never invoked.
C15_OtherRejection ==
    \A c \in CallIds :
        FailedOtherwise(c) =>
            LET o == This(c).options
                thrown == result[c].error
            IN  /\ result[c].state = "rejected"
                /\ Calls(c, "formatValidationError") = {}
                /\ thrown.id # "ActionPlusValidationError"
                /\ IF o.logger = "throws"
                   THEN /\ thrown = Original("loggerThrown")
                        /\ Calls(c, "onError") = {} /\ Calls(c, "formatError") = {}
                   ELSE /\ o.onError # "absent" =>
                              /\ Cardinality(Calls(c, "onError")) = 1
                              /\ \A j \in Calls(c, "onError") : IsBaseContext(c, j)
                        /\ IF o.onError = "throws"
                           THEN thrown = Original("onErrorThrown") /\ Calls(c, "formatError") = {}
                           ELSE IF o.formatError = "throws"
                           THEN thrown = Original("formatErrorThrown")
                           ELSE IF o.formatError = "returns"
                           THEN thrown = Original("formatErrorResult")
                           ELSE thrown = Original(error[c])

\* Witness of C15: the handler threw a plain error, onError was called,
\* formatError returned undefined and the action rejected with the plain
\* error itself.
C15_Witness ==
    \E c \in CallIds :
        /\ FailedOtherwise(c)
        /\ origin[c] = "handler"
        /\ This(c).options.onError = "returns"
        /\ This(c).options.formatError = "returnsUndefined"
        /\ Cardinality(Calls(c, "onError")) = 1
        /\ Cardinality(Calls(c, "formatError")) = 1
        /\ result[c].error = Original("plainError")

\* The segments of a path separated by dots.
RECURSIVE Dotted(_)
Dotted(path) ==
    IF Len(path) = 0 THEN ""
    ELSE IF Len(path) = 1 THEN path[1]
    ELSE Dotted(SubSeq(path, 1, Len(path) - 1)) \o "." \o path[Len(path)]

\* "Input (<path>) is error: <text>" for the first issue, with text in place
\* of <text>; "Validation error: <String(error)>" when there is no issue.
MessageFor(e, text) ==
    LET issues == normalizeIssues(e).issues
    IN  IF Len(issues) = 0 THEN "Validation error: " \o ErrorShape(e).text
        ELSE "Input ("
             \o (IF Len(issues[1].path) = 0 THEN "unknown" ELSE Dotted(issues[1].path))
             \o ") is error: " \o text

\* The messages the error pipeline of invocation c produced for a
\* validation failure: those handed to onError and formatValidationError and
\* that of the built-in error.
Messages(c) ==
    {reports[c][j].message : j \in Calls(c, "onError") \cup Calls(c, "formatValidationError")}
    \cup (IF result[c].error.id = "ActionPlusValidationError"
          THEN {result[c].error.message} ELSE {})

\* C16 as stated: the validation message is "Input (<path>) is error:
\* <message>" with the first normalized issue's dotted path (or "unknown")
\* and that issue's message, or "Validation error: <String(error)>" when
\* there is no issue.
C16_AsStated ==
    \A c \in CallIds :
        (FailedValidation(c) /\ ~normalizeIssues(error[c]).throws) =>
            LET issues == normalizeIssues(error[c]).issues
            IN  \A m \in Messages(c) :
                    m = MessageFor(error[c], IF Len(issues) = 0 THEN "" ELSE issues[1].message)

\* C16, amended: the validation message is built from the first normalized
\* issue only and is "Input (<path>) is error: <message>", where <path> is
\* the issue's segments joined with dots, or "unknown" for an empty path, and
\* <message> is the issue's message or, when that is empty or missing,
\* String(error); when no issue can be extracted the message is "Validation
\* error: <String(error)>" and the issue list is empty.
C16_ValidationMessage ==
    \A c \in CallIds :
        (FailedValidation(c) /\ ~normalizeIssues(error[c]).throws) =>
            LET issues == normalizeIssues(error[c]).issues
                text == IF Len(issues) = 0 THEN ""
                        ELSE IF issues[1].message = "" THEN ErrorShape(error[c]).text
                        ELSE issues[1].message
            IN  /\ \A m \in Messages(c) : m = MessageFor(error[c], text)
                /\ \A j \in Calls(c, "onError") \cup Calls(c, "formatValidationError") :
                      reports[c][j].issues = issues
                /\ result[c].error.id = "ActionPlusValidationError" =>
                      result[c].error.issues = issues

\* Witness of C16: an error whose first issue has the path a, { key: b } and
\* whose second issue has another path gave the built-in error the message
\* of the first.
C16_Witness ==
    \E c \in CallIds :
        /\ FailedValidation(c)
        /\ error[c] = "deepPath"
        /\ result[c].error.id = "ActionPlusValidationError"
        /\ result[c].error.message = "Input (a.b) is error: too short"

\* C17: with logger false the logging sink is never invoked; otherwise it
\* is invoked exactly once per failed invocation, with the raw thrown value,
\* before every other sink of the pipeline (and also when the
\* classification that follows fails), for validation and non-validation
\* failures alike; an invocation that has not failed logs nothing.
C17_LoggerOnce ==
    \A c \in CallIds :
        /\ This(c).options.logger = "false" => Calls(c, "logger") = {}
        /\ ~Failed(c) => Calls(c, "logger") = {}
        /\ (Failed(c) /\ This(c).options.logger # "false") =>
              /\ Calls(c, "logger") = {1}
              /\ reports[c][1].error = error[c]

\* Witness of C17: a validation failure and a custom logger: the logger was
\* called first, then onError and formatValidationError.
C17_Witness ==
    \E c \in CallIds :
        /\ FailedValidation(c)
        /\ This(c).options.logger = "custom"
        /\ Calls(c, "logger") = {1}
        /\ Calls(c, "onError") = {2}
        /\ Calls(c, "formatValidationError") = {3}

\* What invocation c would have rejected with under logger option l and
\* onError option h, everything else being the same.
ThrownUnder(c, l, h) ==
    Normalize([This(c).options EXCEPT !.logger = l, !.onError = h], phase[c], error[c],
              input[c], parsedInputForErrors[c], ctxForErrors[c]).thrown

FailsBeforeHook(c) ==
    \/ This(c).options.logger = "throws"
    \/ isValidationError(error[c]) = "throws"
    \/ isValidationError(error[c]) = "true" /\ normalizeIssues(error[c]).throws

\* The calls of the formatters.
FormatterCalls(c) == Calls(c, "formatValidationError") \cup Calls(c, "formatError")

C20_NoDisclosure ==
    \A c \in CallIds :
        This(c).options.includeInputInErrorDetails # "true" =>
            /\ \A j \in DOMAIN reports[c] :
                  /\ reports[c][j].input = Undefined
                  /\ reports[c][j].parsedInput = Undefined
                  /\ reports[c][j].ctx = Undefined
            /\ result[c].error.data = NoData

\* Witness of C20: the handler threw a validation error with the option
\* false, after the parsed input and the context were recorded; onError was
\* called and the built-in error thrown.
C20_Witness ==
    \E c \in CallIds :
        /\ FailedValidation(c)
        /\ origin[c] = "handler"
        /\ This(c).options.includeInputInErrorDetails = "false"
        /\ input[c] # Undefined
        /\ parsedInputForErrors[c] # Undefined
        /\ ctxForErrors[c] # Undefined
        /\ Calls(c, "onError") # {}
        /\ result[c].error.id = "ActionPlusValidationError"

(***************************************************************************)
(* C21: schema() and use() never mutate the receiver.  In every step, every *)
(* builder and every action function that exists stays as it is (so two     *)
(* builders derived from one builder do not affect each other), a new       *)
(* builder is its receiver with one validator or one middleware appended,   *)
(* and an invocation in flight runs the validators and middlewares of the   *)
(* builder its action function was produced from.                           *)
(***************************************************************************)
Derived(new, old) ==
    \/ \E v \in BuilderValidators :
          new = Builder(Append(old.schemas, v), old.middlewares, old.ctx, old.options)
    \/ \E m \in BuilderMiddlewares :
          new = Builder(old.schemas, Append(old.middlewares, m), old.ctx, old.options)

RunsChainOf(c, b) ==
    /\ \A k \in DOMAIN schemasToRun[c] :
          LET s == schemasToRun[c][k]
          IN  s.n \in DOMAIN b.schemas /\ b.schemas[s.n] = s.name
    /\ \A k \in DOMAIN frames[c] :
          LET fr == frames[c][k]
          IN  fr.n \in DOMAIN b.middlewares /\ b.middlewares[fr.n] = fr.name
    /\ pc[c] \in {"handler", "done"} /\ b.schemas = <<>> => parsedInput[c] = input[c]
    /\ {events[c][j].n : j \in Where(c, "parseSchema") \cup Where(c, "tryParseSchema")}
          \subseteq DOMAIN b.schemas
    /\ {events[c][j].n : j \in Where(c, "middleware")} \subseteq DOMAIN b.middlewares
    /\ result[c].state = "resolved" =>
          {events[c][j].n : j \in Where(c, "middleware")} = DOMAIN b.middlewares

C21_ReceiverUnchanged ==
    [][/\ \A b \in DOMAIN builders : b \in DOMAIN builders' /\ builders'[b] = builders[b]
       /\ \A f \in DOMAIN fns : f \in DOMAIN fns' /\ fns'[f] = fns[f]
       /\ \A b \in DOMAIN builders' \ DOMAIN builders :
             \E r \in DOMAIN builders : Derived(builders'[b], builders[r])
       /\ \A c \in CallIds :
             pc[c] # "idle" => /\ fn'[c] = fn[c]
                               /\ RunsChainOf(c, builders[fns[fn[c]].this])]_vars

\* Two builders derived from the root by separate calls, after an action
\* function produced from the root has run to its end.
C21_Witness ==
    /\ Len(builders) = 3
    /\ builders[2].schemas = <<"syncA">> /\ builders[2].middlewares = <<>>
    /\ builders[3].schemas = <<>> /\ builders[3].middlewares = <<"patchA">>
    /\ Len(fns) = 1 /\ fns[1].this = 1
    /\ pc[1] = "done" /\ result[1].state = "resolved"
    /\ builders[1] = createActionPlus

(***************************************************************************)
(* C22: invocations of one action function in flight at the same time are  *)
(* independent.  No step of one invocation changes anything of another      *)
(* (its cursor, accumulator, phase, error context, working input, frames,   *)
(* result or history), and two finished invocations of the same input whose *)
(* middlewares leave nothing to chance end alike whatever the interleaving  *)
(* was: same phase, same context seen by the handler, same result, same     *)
(* history of calls.                                                        *)
(***************************************************************************)
OfCall(c) ==
    <<pc[c], fn[c], input[c], phase[c], parsedInputForErrors[c], ctxForErrors[c], error[c],
      origin[c], result[c], schemasToRun[c], baseInput[c], i[c], mergedObject[c],
      lastNonObject[c], parsedInput[c], ctx[c], currentIndex[c], frames[c], finalCtx[c],
      events[c], reports[c]>>

Outcome22(c) ==
    <<phase[c], parsedInputForErrors[c], ctxForErrors[c], error[c], origin[c], result[c],
      parsedInput[c], ctx[c], currentIndex[c], finalCtx[c], events[c], reports[c]>>

Deterministic(b) ==
    \A k \in DOMAIN b.middlewares :
        ~Mutates(b.middlewares[k]) /\ MiddlewareOf(b.middlewares[k]).awaits

EndAlike ==
    \A c, d \in CallIds :
        /\ pc[c] = "done" /\ pc[d] = "done"
        /\ fn[c] = fn[d] /\ input[c] = input[d]
        /\ Deterministic(This(c))
        => Outcome22(c) = Outcome22(d)

C22_Independent ==
    [][/\ \E c \in CallIds : \A d \in CallIds \ {c} : OfCall(d)' = OfCall(d)
       /\ EndAlike']_vars

\* Two invocations in the middle of their chains, each at its own cursor and
\* with its own accumulator.
C22_Witness ==
    /\ pc[1] = "chain" /\ pc[2] = "chain"
    /\ fn[1] = fn[2]
    /\ currentIndex[1] = 2 /\ currentIndex[2] = 1
    /\ ctx[1] # ctx[2]

(***************************************************************************)
(* C23: within one invocation nothing runs in parallel.                     *)
(***************************************************************************)
Running(c) == {k \in DOMAIN frames[c] : frames[c][k].st = "run"}
Detached(c) == {k \in DOMAIN frames[c] : frames[c][k].parent = -1}

\* Validators are invoked one at a time, in chain order: the calls made so
\* far have all settled, in increasing position, before the next is made.
ValidatorsInTurn(c) ==
    /\ \A j, k \in Where(c, "parseSchema") :
          j < k => events[c][j].n < events[c][k].n
    /\ \A j, k \in Where(c, "tryParseSchema") :
          j < k => events[c][j].n < events[c][k].n
    /\ \A j \in Where(c, "tryParseSchema"), k \in Where(c, "parseSchema") : j < k
    /\ pc[c] = "run" => Cardinality(Where(c, "parseSchema")) = i[c] - 1
    /\ Where(c, "middleware") # {} => pc[c] \notin {"probe", "run"}

\* As stated: never two middleware steps running side by side, whatever the
\* middlewares do with next.
C23_AsStated ==
    \A c \in CallIds : ValidatorsInTurn(c) /\ Cardinality(Running(c)) <= 1

\* C23, amended: validators run one at a time; middleware steps run one at a
\* time, and only while the chain is being run, as long as every next call
\* made so far was awaited; each next call that was not awaited adds at most
\* one step running beside the others.
C23_Sequential ==
    \A c \in CallIds :
        /\ ValidatorsInTurn(c)
        /\ Cardinality(Running(c)) <= 1 + Cardinality(Detached(c))
        /\ Detached(c) = {} =>
              /\ Cardinality(Running(c)) <= 1
              /\ Running(c) # {} => pc[c] = "chain"
              /\ \A k \in Running(c) : \A j \in DOMAIN frames[c] :
                    j > k => frames[c][j].st \in {"returned", "threw"}

\* After a validator, a middleware that awaits next twice has made both
\* calls: the step it started has returned and it alone is running.
C23_Witness ==
    /\ This(1).schemas = <<"syncA">>
    /\ This(1).middlewares = <<"twice", "patchB">>
    /\ Len(frames[1]) = 2
    /\ frames[1][1].k = 2 /\ frames[1][2].st = "returned"
    /\ Running(1) = {1}
    /\ Where(1, "parseSchema") # {}

(***************************************************************************)
(* C24: a validator implementing none of the known protocols makes the      *)
(* invocation fail with the 'Unsupported schema type' error, which is never *)
(* classified as a validation failure.  An invocation whose chain holds     *)
(* such a validator never leaves the validation phase; when invoke reaches   *)
(* the validator it throws that error; the error travels the non-validation *)
(* branch: formatValidationError is never invoked, no built-in validation   *)
(* error is produced, onError and formatError get the base context, and the *)
(* action rejects with the error itself unless a callback supplies or throws *)
(* another value.                                                           *)
(***************************************************************************)
NoProtocol(v) ==
    ~v.object \/ (v.parseAsync = None /\ v.parse = None /\ v.standard = None)

C24_Unsupported ==
    \A c \in CallIds :
        pc[c] # "idle" =>
            LET o == This(c).options
                thrown == result[c].error
            IN  /\ (\E k \in DOMAIN This(c).schemas : NoProtocol(ValidatorOf(This(c).schemas[k])))
                      => /\ pc[c] \in {"probe", "run", "catch", "done"}
                         /\ phase[c] = "validation"
                         /\ result[c].state # "resolved"
                         /\ Where(c, "middleware") = {} /\ Where(c, "handler") = {}
                /\ \A j \in Where(c, "parseSchema") :
                      NoProtocol(ValidatorOf(This(c).schemas[events[c][j].n]))
                         => /\ ~events[c][j].ok
                            /\ error[c] = "unsupported"
                            /\ origin[c] = "validateInput"
                            /\ \A k \in Where(c, "parseSchema") : k <= j
                /\ Failed(c) /\ error[c] = "unsupported" =>
                      /\ isValidationError(error[c]) = "false"
                      /\ result[c].state = "rejected"
                      /\ Calls(c, "formatValidationError") = {}
                      /\ thrown.id # "ActionPlusValidationError"
                      /\ \A j \in Calls(c, "onError") \cup Calls(c, "formatError") :
                            IsBaseContext(c, j)
                      /\ \A j \in Calls(c, "onError"), k \in Calls(c, "formatError") : j < k
                      /\ thrown \in {Original("unsupported"), Original("loggerThrown"),
                                     Original("onErrorThrown"), Original("formatErrorThrown"),
                                     Original("formatErrorResult")}
                      /\ (o.logger # "throws" /\ o.onError # "throws"
                             /\ o.formatError \in {"absent", "returnsUndefined"})
                            => thrown = Original("unsupported")
                      /\ (o.logger # "throws" /\ o.onError = "returns")
                            => Cardinality(Calls(c, "onError")) = 1

\* The single validator implements no protocol; onError was called with the
\* base context, formatError returned nothing and the action rejected with
\* the configuration error itself.
C24_Witness ==
    /\ Failed(1)
    /\ This(1).schemas = <<"unsupported">>
    /\ error[1] = "unsupported"
    /\ This(1).options.onError = "returns"
    /\ This(1).options.formatError = "returnsUndefined"
    /\ This(1).options.formatValidationError = "returns"
    /\ Cardinality(Calls(1, "onError")) = 1
    /\ Cardinality(Calls(1, "formatError")) = 1
    /\ result[1].error = Original("unsupported")

(***************************************************************************)
(* C25: parseSchema dispatches on the first matching capability in the      *)
(* order parseAsync, parse, Standard validate, unsupported.                 *)
(***************************************************************************)
\* The validator operations called right after event j, up to the next
\* event that is not a validator operation.
RECURSIVE OpsAfter(_, _)
OpsAfter(c, j) ==
    IF j + 1 \in DOMAIN events[c] /\ events[c][j + 1].op \in ValidatorOps
    THEN <<j + 1>> \o OpsAfter(c, j + 1)
    ELSE <<>>

\* The one operation the order of the claim selects on validator v.
Dispatched(v) ==
    IF ~v.object THEN <<>>
    ELSE IF v.parseAsync # None THEN <<"parseAsync">>
    ELSE IF v.parse # None THEN <<"parse">>
    ELSE IF v.standard # None THEN <<"validate">>
    ELSE <<>>

\* What that operation throws on x ("none" for the Standard path, which
\* reports failure in its result).
ThrownBy(v, x) ==
    IF ~v.object THEN NoError
    ELSE IF v.parseAsync # None THEN Behave(v.parseAsync, x).err
    ELSE IF v.parse # None THEN Behave(v.parse, x).err
    ELSE NoError

\* Every parseSchema call of validateInput called exactly the operation the
\* order selects, on the input it was given.
DispatchInOrder(c) ==
    \A j \in Invokes(c) :
        LET v == ValidatorOf(This(c).schemas[events[c][j].n])
            ops == OpsAfter(c, j)
        IN  /\ [k \in DOMAIN ops |-> events[c][ops[k]].op] = Dispatched(v)
            /\ \A k \in DOMAIN ops : /\ events[c][ops[k]].x = events[c][j].x
                                     /\ events[c][ops[k]].n = events[c][j].n
                                     /\ events[c][ops[k]].via = "invoke"

\* The value thrown by the parse / parseAsync call of event j is the error
\* the pipeline works on: the error of every context and the cause of the
\* built-in error, never a copy or a wrapper.
ReachesPipeline(c, j) ==
    LET v == ValidatorOf(This(c).schemas[events[c][j].n])
        e == ThrownBy(v, events[c][j].x)
    IN  /\ pc[c] \in {"catch", "done"}
        /\ origin[c] = "validateInput"
        /\ error[c] = e
        /\ \A k \in DOMAIN events[c] : k <= j
        /\ \A r \in DOMAIN reports[c] : reports[c][r].error = e
        /\ result[c].error.id = "ActionPlusValidationError" => result[c].error.cause = e
        /\ result[c].error.id \in ErrorIds \cup {"zodError", "plainError"}
              => result[c].error = Original(e)

Threw(c) ==
    {j \in DOMAIN events[c] : events[c][j].op \in {"parse", "parseAsync"} /\ ~events[c][j].ok}

\* As stated: every rejection or thrown error of parse / parseAsync reaches
\* the error pipeline.
C25_AsStated ==
    \A c \in CallIds :
        pc[c] # "idle" => DispatchInOrder(c) /\ \A j \in Threw(c) : ReachesPipeline(c, j)

\* C25, amended: the dispatch order holds for every parseSchema call; the
\* value thrown by parse / parseAsync in a call made by validateInput itself
\* reaches the pipeline as the same object, the one thrown inside the
\* FormData probe is discarded, and the invocation goes on.
C25_Dispatch ==
    \A c \in CallIds :
        pc[c] # "idle" =>
            /\ DispatchInOrder(c)
            /\ \A j \in Threw(c) :
                  IF events[c][j].via = "invoke"
                  THEN ReachesPipeline(c, j)
                  ELSE /\ events[c][j].x = input[c] /\ IsFormData(input[c])
                       /\ (error[c] # NoError /\ origin[c] = "validateInput")
                             => \E m \in Invokes(c) : ~events[c][m].ok

\* A validator with parse and ~standard.validate was invoked through parse,
\* which threw; the built-in validation error carries that value as cause.
C25_Witness ==
    /\ Failed(1)
    /\ \E j \in Invokes(1) :
          /\ This(1).schemas[events[1][j].n] = "parseAndStandard"
          /\ OpsAfter(1, j) # <<>>
          /\ events[1][OpsAfter(1, j)[1]].op = "parse"
          /\ ~events[1][OpsAfter(1, j)[1]].ok
    /\ result[1].error.id = "ActionPlusValidationError"
    /\ result[1].error.cause = error[1]

(***************************************************************************)
(* C26: for a FormData input the validators are probed in chain order; the  *)
(* first whose probe succeeds is removed from the working set and its value *)
(* becomes the working input; no validator after it is probed and at most   *)
(* one is removed; a failed probe is never surfaced as an error; if no      *)
(* probe succeeds the full chain is run against the original FormData.      *)
(***************************************************************************)
Probes(c) == Where(c, "tryParseSchema")
Without(list, k) == [j \in 1..(Len(list) - 1) |-> IF j < k THEN list[j] ELSE list[j + 1]]
Numbered(list) == [k \in DOMAIN list |-> [name |-> list[k], n |-> k]]

C26_ProbeOrder ==
    \A c \in CallIds :
        pc[c] # "idle" =>
            LET chain == This(c).schemas
                count == Cardinality(Probes(c))
                hits == {j \in Probes(c) : events[c][j].ok}
            IN  /\ ~IsFormData(input[c]) => Probes(c) = {}
                /\ {events[c][j].n : j \in Probes(c)} = 1..count
                /\ count <= Len(chain)
                /\ \A j, k \in Probes(c) : j < k => events[c][j].n < events[c][k].n
                /\ \A j \in Probes(c) :
                      /\ events[c][j].x = input[c]
                      /\ \A k \in Invokes(c) : j < k
                /\ Cardinality(hits) <= 1
                /\ \A j \in hits :
                      /\ \A k \in Probes(c) : k <= j
                      /\ schemasToRun[c] = Without(Numbered(chain), events[c][j].n)
                      /\ baseInput[c] = events[c][j].y
                      /\ \A k \in Invokes(c) : events[c][k].x = events[c][j].y
                /\ Len(schemasToRun[c]) >= Len(chain) - 1
                /\ pc[c] = "probe" => error[c] = NoError /\ hits = {}
                /\ (IsFormData(input[c]) /\ chain # <<>> /\ pc[c] # "probe" /\ hits = {}) =>
                      /\ count = Len(chain)
                      /\ schemasToRun[c] = Numbered(chain)
                      /\ baseInput[c] = input[c]
                      /\ \A k \in Invokes(c) : events[c][k].x = input[c]
                      /\ pc[c] # "run" => /\ Invokes(c) # {}
                                          /\ \A k \in Invokes(c) : events[c][k].n = 1
                /\ origin[c] = "validateInput" => \E k \in Invokes(c) : ~events[c][k].ok

\* The first two validators failed their probe, the third decoded the
\* FormData and was removed, and the others were then invoked on the decoded
\* value.
C26_Witness ==
    /\ IsFormData(input[1])
    /\ Len(This(1).schemas) = 3
    /\ Cardinality(Probes(1)) = 3
    /\ \E j \in Probes(1) : events[1][j].ok /\ events[1][j].n = 3
    /\ Len(schemasToRun[1]) = 2
    /\ Cardinality(Invokes(1)) >= 1
    /\ baseInput[1] # input[1]

\* No probe succeeded on the FormData and the full chain ran against it.
C26_WitnessNone ==
    /\ IsFormData(input[1])
    /\ Len(This(1).schemas) = 2
    /\ Cardinality(Probes(1)) = 2
    /\ \A j \in Probes(1) : ~events[1][j].ok
    /\ \E k \in Invokes(1) : events[1][k].n = 1 /\ events[1][k].x = input[1]
    /\ Failed(1)
    /\ \E k \in DOMAIN This(1).schemas : This(1).schemas[k] = "unsupported"

(***************************************************************************)
(* C27: in a run of more than one validator the final parsed value is the   *)
(* merged object if at least one output was a plain object (the other       *)
(* outputs are discarded), otherwise the output of the last validator that  *)
(* returned something else; arrays, dates and null never enter the          *)
(* accumulator.                                                             *)
(***************************************************************************)
\* The output of the k-th validator of the working set, once invoked.
Output(c, k) ==
    LET js == {j \in Invokes(c) : events[c][j].n = schemasToRun[c][k].n /\ events[c][j].ok}
    IN  events[c][CHOOSE j \in js : TRUE].y

Plain(v) == v.t \notin {"array", "date", "null", "prim", "undefined"}

RECURSIVE MergedPlain(_, _)
MergedPlain(c, k) ==
    IF k = 0 THEN NoFields
    ELSE IF Plain(Output(c, k)) THEN Over(MergedPlain(c, k - 1), Output(c, k).f)
    ELSE MergedPlain(c, k - 1)

RECURSIVE LastOther(_, _)
LastOther(c, k) ==
    IF k = 0 THEN Undefined
    ELSE IF Plain(Output(c, k)) THEN LastOther(c, k - 1)
    ELSE Output(c, k)

\* The validators of the working set invoked so far, all with success.
Ran(c) == Cardinality({j \in Invokes(c) : events[c][j].ok})

C27_MergeOrLast ==
    \A c \in CallIds :
        (pc[c] \notin {"idle", "probe"} /\ Len(schemasToRun[c]) >= 2) =>
            LET m == Ran(c)
                some == \E k \in 1..m : Plain(Output(c, k))
            IN  /\ IF some
                   THEN /\ mergedObject[c].t = "object"
                        /\ mergedObject[c].f = MergedPlain(c, m)
                   ELSE mergedObject[c] = Undefined
                /\ lastNonObject[c] = LastOther(c, m)
                /\ (m = Len(schemasToRun[c]) /\ pc[c] # "run") =>
                      IF some
                      THEN /\ parsedInput[c].t = "object"
                           /\ parsedInput[c].f = MergedPlain(c, m)
                      ELSE parsedInput[c] = LastOther(c, m)

\* An array, then an object, then null: the parsed input is the object's
\* fields alone.
C27_Witness ==
    /\ This(1).schemas = <<"syncArray", "syncA", "syncNull">>
    /\ pc[1] = "done"
    /\ parsedInput[1].t = "object"
    /\ parsedInput[1].f = Fields("1", Absent)
    /\ lastNonObject[1] = Null

\* A date, then an array: the parsed input is the array.
C27_WitnessLast ==
    /\ This(1).schemas = <<"syncDate", "syncArray">>
    /\ pc[1] = "done"
    /\ parsedInput[1] = Arr("outArray")

(***************************************************************************)
(* C28: for a validator dispatched through the Standard capability, every   *)
(* successful result of validate (it carries value, and issues is absent or *)
(* undefined) makes parseSchema return that value, never throw.             *)
(***************************************************************************)
ViaStandard(v) == v.object /\ v.parseAsync = None /\ v.parse = None /\ v.standard # None

C28_AsStated ==
    \A c \in CallIds : \A j \in Invokes(c) :
        LET v == ValidatorOf(This(c).schemas[events[c][j].n])
            r == Behave(v.standard, events[c][j].x)
        IN  (ViaStandard(v) /\ r.ok /\ v.shape \in {"value", "undefinedIssues"}) =>
                /\ events[c][j].ok
                /\ events[c][j].y = r.val

(***************************************************************************)
(* C29: the branch of the error pipeline is decided only by the shape of    *)
(* the thrown value, never by the phase.  A thrown non-null object named    *)
(* 'ZodError', with a name containing 'ValidationError', or with an errors  *)
(* or issues property is handled as a validation failure in whatever phase  *)
(* it was thrown (validation context for onError, formatValidationError or  *)
(* the built-in error with code VALIDATION_ERROR, never formatError), the   *)
(* phase staying that of its origin; a non-object is never a validation     *)
(* failure.  Stated for the invocations whose logger and onError return.    *)
(***************************************************************************)
ShapedAsValidation(e) ==
    LET shape == ErrorShape(e)
    IN  /\ shape.object
        /\ \/ shape.name \in {"ZodError", "MyValidationError"}
           \/ shape.errors # "absent"
           \/ shape.issues # "absent"

HandledAsValidation(c) ==
    LET o == This(c).options
        thrown == result[c].error
    IN  /\ phase[c] = StageOf(origin[c])
        /\ Calls(c, "formatError") = {}
        /\ o.onError = "returns" =>
              /\ Cardinality(Calls(c, "onError")) = 1
              /\ \A j \in Calls(c, "onError") :
                    reports[c][j].message # "-" /\ reports[c][j].phase = phase[c]
        /\ IF o.formatValidationError = "returns"
           THEN thrown = Original("formatValidationErrorResult")
           ELSE IF o.formatValidationError = "throws"
           THEN thrown = Original("formatValidationErrorThrown")
           ELSE /\ thrown.id = "ActionPlusValidationError"
                /\ thrown.code = "VALIDATION_ERROR"
                /\ thrown.phase = phase[c]

C29_AsStated ==
    \A c \in CallIds :
        (Failed(c) /\ This(c).options.logger # "throws" /\ This(c).options.onError # "throws") =>
            /\ ShapedAsValidation(error[c]) => HandledAsValidation(c)
            /\ ~ErrorShape(error[c]).object =>
                  /\ Calls(c, "formatValidationError") = {}
                  /\ result[c].error.id # "ActionPlusValidationError"
                  /\ \A j \in Calls(c, "onError") : IsBaseContext(c, j)

(***************************************************************************)
(* C30: whatever is thrown, the error pipeline never raises an error of its *)
(* own: the action rejects with the original value, with the built-in       *)
(* validation error whose cause is the original value, with a formatter's   *)
(* return value, or with a value thrown by a caller-supplied callback.      *)
(***************************************************************************)
C30_AsStated ==
    \A c \in CallIds :
        Failed(c) =>
            LET thrown == result[c].error
            IN  \/ thrown = Original(error[c])
                \/ thrown.id = "ActionPlusValidationError" /\ thrown.cause = error[c]
                \/ thrown \in {Original("formatValidationErrorResult"),
                               Original("formatErrorResult")}
                \/ thrown \in {Original("loggerThrown"), Original("onErrorThrown"),
                               Original("formatValidationErrorThrown"),
                               Original("formatErrorThrown")}

(***************************************************************************)
(* C31: the cursor of a chain run stays within 0..length and never          *)
(* decreases; a next call that finds it below the length invokes exactly    *)
(* the middleware at the cursor and advances it by one, so the middlewares  *)
(* are invoked at most once each and in chain order however often next is   *)
(* called; a next call made with the cursor at the length invokes nothing   *)
(* and returns the current accumulator.                                     *)
(***************************************************************************)
CursorInRange(c) ==
    LET m == This(c).middlewares
        started == Where(c, "middleware")
    IN  /\ currentIndex[c] \in 0..Len(m)
        /\ Len(frames[c]) = currentIndex[c]
        /\ \A k \in DOMAIN frames[c] : frames[c][k].n = k /\ frames[c][k].name = m[k]
        /\ {events[c][j].n : j \in started} = 1..currentIndex[c]
        /\ \A j, k \in started : j < k => events[c][j].n < events[c][k].n

NextCall(c, f) == f \in DOMAIN frames[c] /\ frames'[c][f].k = frames[c][f].k + 1

C31_Cursor ==
    [][\A c \in CallIds :
          LET m == This(c).middlewares
              last == Len(frames[c]) + 1
          IN  /\ CursorInRange(c)'
              /\ currentIndex'[c] >= currentIndex[c]
              /\ \A f \in DOMAIN frames[c] : NextCall(c, f) =>
                    IF currentIndex[c] < Len(m)
                    THEN /\ currentIndex'[c] = currentIndex[c] + 1
                         /\ Len(frames'[c]) = last
                         /\ frames'[c][last].name = m[currentIndex[c] + 1]
                         /\ Cardinality(Where(c, "middleware")') =
                               Cardinality(Where(c, "middleware")) + 1
                    ELSE /\ currentIndex'[c] = currentIndex[c]
                         /\ Len(frames'[c]) = Len(frames[c])
                         /\ events'[c] = events[c]
                         /\ MiddlewareOf(frames[c][f].name).awaits
                               => frames'[c][f].got = ctx'[c]]_vars

\* A middleware has called next twice: the second call found the cursor at
\* the length of the chain, started nothing and returned the accumulator.
C31_Witness ==
    /\ This(1).middlewares = <<"twice", "patchB">>
    /\ Len(frames[1]) = 2
    /\ frames[1][1].k = 2 /\ frames[1][1].st = "run"
    /\ currentIndex[1] = 2
    /\ frames[1][1].got = ctx[1]
    /\ Cardinality(Where(1, "middleware")) = 2

(***************************************************************************)
(* C32: the context handed to the handler is the value the first middleware *)
(* returned (a shallow copy of the base context when the chain is empty),   *)
(* not the runner's accumulator: the patches reach the handler only when    *)
(* every middleware on the way back returns what its next call gave it, and *)
(* a middleware that returns another object replaces the accumulated        *)
(* context.                                                                 *)
(***************************************************************************)
Children(c, f) == {g \in DOMAIN frames[c] : frames[c][g].parent = f}

\* The value activation f returns, followed down the awaited next calls: its
\* own object, or what its last next call resolved with, which is the value
\* of the activation that call started or, for a call past the end of the
\* chain, the accumulator it was given.
RECURSIVE ValueOf(_, _)
ValueOf(c, f) ==
    LET fr == frames[c][f]
        m == MiddlewareOf(fr.name)
        started == Children(c, f)
    IN  IF m.ret # "next" THEN OwnCtx
        ELSE IF started # {} /\ Cardinality(started) = fr.k
        THEN ValueOf(c, CHOOSE g \in started : \A h \in started : h <= g)
        ELSE fr.got

PassesOn(name) ==
    LET m == MiddlewareOf(name)
    IN  m.awaits /\ m.ret = "next" /\ Len(m.patches) >= 1

C32_HandlerCtx ==
    \A c \in CallIds : \A h \in Where(c, "handler") :
        LET mws == This(c).middlewares
            given == events[c][h].y
        IN  /\ given = ctxForErrors[c]
            /\ IF mws = <<>>
               THEN /\ given = Obj("ctxCopy", OwnFields(This(c).ctx))
                    /\ given # This(c).ctx
               ELSE /\ frames[c][1].st = "returned"
                    /\ given = ValueOf(c, 1)
                    /\ (\A k \in DOMAIN mws : PassesOn(mws[k])) => given = ctx[c]
                    /\ MiddlewareOf(mws[1]).ret = "own" => given = OwnCtx
                    /\ (\E k \in DOMAIN mws :
                           /\ MiddlewareOf(mws[k]).ret = "own"
                           /\ \A j \in 1..(k - 1) : PassesOn(mws[j])
                                                    /\ Len(MiddlewareOf(mws[j]).patches) = 1)
                          => given = OwnCtx

\* The first middleware passed a patch and returned what next gave it; the
\* second called next with a patch and then returned an object of its own:
\* the handler received that object, not the accumulator with the patches.
C32_Witness ==
    /\ This(1).middlewares = <<"patchB", "replace">>
    /\ pc[1] = "done"
    /\ \E h \in Where(1, "handler") : events[1][h].y = OwnCtx
    /\ ctx[1] # OwnCtx
    /\ ctx[1].f = Fields("1", "2")

(***************************************************************************)
(* C33: with includeInputInErrorDetails true the error details tell how far *)
(* the invocation got.  In every context handed to onError, formatError or  *)
(* formatValidationError, and in the data of the built-in validation error, *)
(* input is the raw input; parsedInput is what validateInput resolved with  *)
(* when validation completed and undefined when the failure arose in        *)
(* validation; ctx is the context the chain run resolved with (the one the  *)
(* handler received) when the chain completed and undefined when the        *)
(* failure arose in validation or in the chain.                             *)
(***************************************************************************)
ValidationCompleted(c) == origin[c] \in {"runMiddlewareChain", "handler"}
ChainCompleted(c) == origin[c] = "handler" /\ Where(c, "handler") # {}

Details(c) ==
    [input |-> input[c],
     parsedInput |-> IF ValidationCompleted(c) THEN parsedInput[c] ELSE Undefined,
     ctx |-> IF ChainCompleted(c)
             THEN events[c][CHOOSE h \in Where(c, "handler") : TRUE].y
             ELSE Undefined]

C33_Details ==
    \A c \in CallIds :
        (Failed(c) /\ This(c).options.includeInputInErrorDetails = "true") =>
            /\ ValidationCompleted(c) <=> StageOf(origin[c]) # "validation"
            /\ ChainCompleted(c) <=> StageOf(origin[c]) = "handler"
            /\ ValidationCompleted(c) =>
                  \A j \in Where(c, "middleware") \cup Where(c, "handler") :
                      events[c][j].x = Details(c).parsedInput
            /\ ~ValidationCompleted(c) =>
                  Where(c, "middleware") \cup Where(c, "handler") = {}
            /\ \A j \in DOMAIN reports[c] :
                  reports[c][j].sink # "logger" =>
                      /\ reports[c][j].input = Details(c).input
                      /\ reports[c][j].parsedInput = Details(c).parsedInput
                      /\ reports[c][j].ctx = Details(c).ctx
            /\ result[c].error.id = "ActionPlusValidationError" =>
                  result[c].error.data =
                      [present |-> TRUE, input |-> Details(c).input,
                       parsedInput |-> Details(c).parsedInput, ctx |-> Details(c).ctx]

\* A middleware threw a validation error with the option true: onError saw
\* the raw input and the parsed input but no context, although the runner's
\* accumulator existed, and the built-in error carries the same three values.
C33_Witness ==
    \E c \in CallIds :
        /\ FailedValidation(c)
        /\ origin[c] = "runMiddlewareChain"
        /\ This(c).options.includeInputInErrorDetails = "true"
        /\ ctx[c] # Undefined
        /\ \E j \in Calls(c, "onError") :
              /\ reports[c][j].input = input[c]
              /\ reports[c][j].parsedInput = parsedInput[c]
              /\ reports[c][j].parsedInput # Undefined
              /\ reports[c][j].ctx = Undefined
        /\ result[c].error.id = "ActionPlusValidationError"
        /\ result[c].error.data.present
        /\ result[c].error.data.ctx = Undefined

(***************************************************************************)
(* C34: an invocation in which validation, the middleware chain and the     *)
(* handler all succeed resolves with exactly the handler's return value,    *)
(* and the error pipeline leaves no trace: neither the logger nor onError,  *)
(* formatValidationError or formatError is called, whatever the options.    *)
(* As long as no stage has failed no sink has been called, and the action   *)
(* resolves only this way.                                                  *)
(***************************************************************************)
Succeeded(c) == pc[c] = "done" /\ origin[c] = "-"

C34_Success ==
    \A c \in CallIds :
        /\ origin[c] = "-" => reports[c] = <<>> /\ error[c] = NoError
        /\ Succeeded(c) =>
              /\ Cardinality(Where(c, "handler")) = 1
              /\ HandlerOfCall(c).ok
              /\ result[c].state = "resolved"
              /\ result[c].value = HandlerOfCall(c).val
              /\ result[c].error = NoErrorValue
              /\ \A s \in {"logger", "onError", "formatValidationError", "formatError"} :
                    Calls(c, s) = {}
        /\ result[c].state = "resolved" => Succeeded(c)

\* An invocation with a custom logger and the three callbacks configured
\* went through a validator, a middleware and the handler and resolved with
\* the handler's value; nothing was reported.
C34_Witness ==
    \E c \in CallIds :
        /\ Succeeded(c)
        /\ This(c).schemas = <<"syncA">>
        /\ This(c).middlewares = <<"patchA">>
        /\ This(c).options.logger = "custom"
        /\ This(c).options.onError = "returns"
        /\ This(c).options.formatValidationError = "returns"
        /\ This(c).options.formatError = "returns"
        /\ result[c] = Resolved(HandlerOut)
        /\ reports[c] = <<>>

====
